---- MODULE Spec2Model ----
(***************************************************************************)
(* A model of the merkledb trieView (src/x/merkledb/node.go): the          *)
(* path-compressed radix trie a view builds on top of its parent trie, the *)
(* lazy structural materialisation (calculateNodeIDs), reads, child views, *)
(* invalidation and commit.                                                *)
(*                                                                         *)
(* Key lengths are counted in tokens, so tokenSize is the unit 1.          *)
(***************************************************************************)
EXTENDS Integers, Sequences, FiniteSets, TLC

VARIABLES db, views, mat, ret, thr

vars == <<db, views, mat, ret, thr>>

(***************************************************************************)
(* Bounds of the model.                                                    *)
(***************************************************************************)
MaxKeyLen == 3
MaxChanges == 2
MaxViews == 4
MaxThreads == 2
MaxParentKeys == 4
MaxCalls == 1
SemaCapacity == 1

Tokens == {0, 1}
Values == {"v1", "v2"}

(***************************************************************************)
(* maybe.Maybe, errors, identifiers.                                       *)
(***************************************************************************)
Nothing == "Nothing"
HasValue(val) == val # Nothing

NoErr == "nil"
ErrInvalid == "ErrInvalid"
ErrNotFound == "ErrNotFound"
ErrGetPathToFailure == "ErrGetPathToFailure"
ErrNoValidRoot == "ErrNoValidRoot"
ErrParentNotDatabase == "ErrParentNotDatabase"
ErrNodesAlreadyCalculated == "ErrNodesAlreadyCalculated"
ErrCommitted == "ErrCommitted"
ErrStartAfterEnd == "ErrStartAfterEnd"
ErrInvalidMaxLength == "ErrInvalidMaxLength"
\* a nil pointer dereference: the Go runtime panics
Panic == "panic"

DB == 0
ViewIds == 1..MaxViews

\* ids.Empty, the zero hash
EmptyID == [zero |-> TRUE]
\* a nil *node
NilNode == [nil |-> TRUE]

(***************************************************************************)
(* Key: a sequence of tokens.                                              *)
(***************************************************************************)
RECURSIVE KeysOfLen(_)
KeysOfLen(n) ==
    IF n = 0 THEN {<<>>}
    ELSE {Append(k, t) : k \in KeysOfLen(n - 1), t \in Tokens}

\* The keys of the model: token 1 occurs only as the last token of a key, so
\* that the tries branch at every depth while the key space grows linearly.
Keys ==
    {k \in UNION {KeysOfLen(n) : n \in 0..MaxKeyLen} :
        \A i \in 1..(Len(k) - 1) : k[i] = 0}

emptyKey == <<>>
tokenSize == 1

Take(key, n) == SubSeq(key, 1, n)
Skip(key, n) == SubSeq(key, n + 1, Len(key))
\* the token that starts at offset [i]
Token(key, i) == key[i + 1]
Extend(key, token, suffix) == key \o <<token>> \o suffix
\* [key], from offset [offset] on, starts with [prefix]
iteratedHasPrefix(key, prefix, offset) ==
    /\ Len(key) - offset >= Len(prefix)
    /\ \A i \in 1..Len(prefix) : key[offset + i] = prefix[i]

RECURSIVE commonPrefixFrom(_, _, _, _)
commonPrefixFrom(first, second, secondOffset, commonIndex) ==
    IF /\ Len(first) > commonIndex
       /\ Len(second) > commonIndex + secondOffset
       /\ Token(first, commonIndex) = Token(second, commonIndex + secondOffset)
    THEN commonPrefixFrom(first, second, secondOffset, commonIndex + tokenSize)
    ELSE commonIndex

getLengthOfCommonPrefix(first, second, secondOffset) ==
    commonPrefixFrom(first, second, secondOffset, 0)

(***************************************************************************)
(* Finite maps.                                                            *)
(***************************************************************************)
EmptyMap == [x \in {} |-> Nothing]
Put(f, k, v) == [x \in (DOMAIN f) \cup {k} |-> IF x = k THEN v ELSE f[x]]
Del(f, k) == [x \in (DOMAIN f) \ {k} |-> f[x]]

(***************************************************************************)
(* node and child.                                                         *)
(***************************************************************************)
newChild(ck, id, hv) == [compressedKey |-> ck, id |-> id, hasValue |-> hv]
newNode == [value |-> Nothing, children |-> EmptyMap]
setValue(n, val) == [n EXCEPT !.value = val]
setChildEntry(n, index, childEntry) ==
    [n EXCEPT !.children = Put(n.children, index, childEntry)]
deleteChildEntry(n, index) == [n EXCEPT !.children = Del(n.children, index)]
hasValue(n) == n.value # Nothing

\* the bytes that are hashed: the key, the children in token order, the value
encodeHashValues(key, n) ==
    [key |-> key, children |-> n.children, value |-> n.value]

\* the hash is injective on what it is given
calculateID(key, n) == encodeHashValues(key, n)

(***************************************************************************)
(* The committed trie of a key->value map: the root, the keys that hold a  *)
(* value and the branch points, each child edge leading to the nearest     *)
(* node below it.  The database holds such a trie.                         *)
(***************************************************************************)
LCP(a, b) == Take(a, getLengthOfCommonPrefix(a, b, 0))

RefNodeKeys(m) ==
    {emptyKey} \cup (DOMAIN m) \cup {LCP(a, b) : a \in DOMAIN m, b \in DOMAIN m}

RefBelow(m, k, t) ==
    {c \in RefNodeKeys(m) :
        /\ Len(c) > Len(k)
        /\ Take(c, Len(k)) = k
        /\ Token(c, Len(k)) = t}

RefChildKey(m, k, t) ==
    CHOOSE c \in RefBelow(m, k, t) : \A d \in RefBelow(m, k, t) : Len(c) <= Len(d)

RECURSIVE RefNode(_, _)
RefNode(m, k) ==
    [value |-> IF k \in DOMAIN m THEN m[k] ELSE Nothing,
     children |->
        [t \in {u \in Tokens : RefBelow(m, k, u) # {}} |->
            LET c == RefChildKey(m, k, t)
            IN  newChild(Skip(c, Len(k) + tokenSize),
                         calculateID(c, RefNode(m, c)),
                         c \in DOMAIN m)]]

RefNodes(m) == [k \in RefNodeKeys(m) |-> RefNode(m, k)]

RefRootID(m) == calculateID(emptyKey, RefNode(m, emptyKey))

(***************************************************************************)
(* The database as a parent trie: getValue and getEditableNode.            *)
(***************************************************************************)
dbGetValue(key) ==
    [err |-> NoErr,
     val |-> IF key \in DOMAIN db.values THEN db.values[key] ELSE Nothing]

\* [hadValue] selects the store the node is read from; the root is kept apart,
\* and a store that holds no root has none to give
dbGetEditableNode(key, hadValue) ==
    IF key = emptyKey
    THEN IF emptyKey \in DOMAIN db.nodes
         THEN [err |-> NoErr, node |-> db.nodes[emptyKey]]
         ELSE [err |-> ErrNotFound, node |-> NilNode]
    ELSE IF key \in DOMAIN db.nodes /\ hasValue(db.nodes[key]) = hadValue
    THEN [err |-> NoErr, node |-> db.nodes[key]]
    ELSE [err |-> ErrNotFound, node |-> NilNode]

(***************************************************************************)
(* Reads of a view.  [t] is the view's record; its ancestors are read from *)
(* [vs], the views in scope, and from [db].                                *)
(***************************************************************************)
isInvalid(t) == t.invalidated
getParentTrie(t) == t.parentTrie

RECURSIVE trieGetValue(_, _, _)
RECURSIVE trieGetEditableNode(_, _, _, _)

\* a plausible slip: the parent's answer is returned without a second look
\* at the validity of the view
getValueFromParentUnchecked(t, r) ==
    IF r.err # NoErr
    THEN [err |-> r.err, val |-> Nothing]
    ELSE r

\* getValue once the parent trie has answered [r]: its error is returned, and
\* its value only when the view is still valid
getValueFromParent(t, r) ==
    IF r.err # NoErr
    THEN [err |-> r.err, val |-> Nothing]
    ELSE IF isInvalid(t)
    THEN [err |-> ErrInvalid, val |-> Nothing]
    ELSE r

getValue(vs, t, key) ==
    IF isInvalid(t)
    THEN [err |-> ErrInvalid, val |-> Nothing]
    ELSE IF key \in DOMAIN t.values
    THEN [err |-> NoErr, val |-> t.values[key].after]
    ELSE getValueFromParent(t, trieGetValue(vs, getParentTrie(t), key))

getNode(vs, t, key, hadValue) ==
    IF key \in DOMAIN t.nodes
    THEN IF t.nodes[key].after = NilNode
         THEN [err |-> ErrNotFound, node |-> NilNode]
         ELSE [err |-> NoErr, node |-> t.nodes[key].after]
    ELSE trieGetEditableNode(vs, getParentTrie(t), key, hadValue)

getEditableNode(vs, t, key, hadValue) ==
    IF isInvalid(t)
    THEN [err |-> ErrInvalid, node |-> NilNode]
    ELSE LET checked(r) ==
                IF r.err # NoErr
                THEN [err |-> r.err, node |-> NilNode]
                ELSE IF isInvalid(t)
                THEN [err |-> ErrInvalid, node |-> NilNode]
                ELSE r
         IN  checked(getNode(vs, t, key, hadValue))

trieGetValue(vs, id, key) ==
    IF id = DB THEN dbGetValue(key) ELSE getValue(vs, vs[id], key)

trieGetEditableNode(vs, id, key, hadValue) ==
    IF id = DB
    THEN dbGetEditableNode(key, hadValue)
    ELSE getEditableNode(vs, vs[id], key, hadValue)

\* GetValue: an absent value is reported as database.ErrNotFound
GetValue(vs, t, key) ==
    LET copied(r) ==
            IF r.err # NoErr THEN r
            ELSE IF r.val = Nothing THEN [err |-> ErrNotFound, val |-> Nothing]
            ELSE r
    IN  copied(getValue(vs, t, key))

\* a plausible slip: the lookups stop at the first key that fails
GetValuesShortCircuit(vs, t, keys) ==
    LET failed(i) == \E j \in 1..i : GetValue(vs, t, keys[j]).err # NoErr
    IN  [results |-> [i \in DOMAIN keys |->
                        IF failed(i) THEN Nothing ELSE GetValue(vs, t, keys[i]).val],
         errors |-> [i \in DOMAIN keys |->
                        IF failed(i - 1) THEN NoErr ELSE GetValue(vs, t, keys[i]).err]]

\* GetValues: every key is looked up with getValueCopy, and its value or its
\* error is stored at the key's position
GetValues(vs, t, keys) ==
    LET lookup(r) ==
            CASE r.err # NoErr -> [err |-> r.err, val |-> Nothing]
              [] r.val = Nothing -> [err |-> ErrNotFound, val |-> Nothing]
              [] OTHER -> [err |-> NoErr, val |-> r.val]
    IN  [results |-> [i \in DOMAIN keys |-> lookup(getValue(vs, t, keys[i])).val],
         errors |-> [i \in DOMAIN keys |-> lookup(getValue(vs, t, keys[i])).err]]

\* the parent of a statelessView is reached through its verifierIntercepter:
\* the temporary values, then the permanent ones, and a miss is an error
statelessParentGetValue(sv, key) ==
    CASE key \in DOMAIN sv.tempValues /\ sv.tempValues[key] # Nothing ->
            [err |-> NoErr, val |-> sv.tempValues[key]]
      [] key \in DOMAIN sv.tempValues -> [err |-> ErrNotFound, val |-> Nothing]
      [] key \in DOMAIN sv.permValues /\ sv.permValues[key] # Nothing ->
            [err |-> NoErr, val |-> sv.permValues[key]]
      [] OTHER -> [err |-> ErrNotFound, val |-> Nothing]

\* statelessView.getValue, and getValueCopy over it
statelessGetValue(sv, key) ==
    IF key \in DOMAIN sv.values
    THEN IF sv.values[key] = Nothing
         THEN [err |-> ErrNotFound, val |-> Nothing]
         ELSE [err |-> NoErr, val |-> sv.values[key]]
    ELSE IF key = emptyKey
    THEN IF sv.rootValue = Nothing
         THEN [err |-> ErrNotFound, val |-> Nothing]
         ELSE [err |-> NoErr, val |-> sv.rootValue]
    ELSE statelessParentGetValue(sv, key)

statelessGetValueCopy(sv, key) ==
    LET copied(r) == IF r.err # NoErr THEN [err |-> r.err, val |-> Nothing] ELSE r
    IN  copied(statelessGetValue(sv, key))

statelessGetValues(sv, keys) ==
    [results |-> [i \in DOMAIN keys |-> statelessGetValueCopy(sv, keys[i]).val],
     errors |-> [i \in DOMAIN keys |-> statelessGetValueCopy(sv, keys[i]).err]]


(***************************************************************************)
(* The change summary of a view.  A node that the view has recorded is     *)
(* shared by pointer between changes.nodes and whoever walks to it, and    *)
(* the root pointer is recorded under the empty key: a mutation of a       *)
(* recorded node is a mutation of changes.nodes[key].after.                *)
(***************************************************************************)
nodeAt(t, key) == IF key = emptyKey THEN t.root ELSE t.nodes[key].after

mutNode(t, key, n) ==
    [t EXCEPT !.nodes = IF key \in DOMAIN @
                        THEN [@ EXCEPT ![key].after = n]
                        ELSE @,
              !.root = IF key = emptyKey THEN n ELSE @]

\* recordValueChange that keeps the first value recorded for a key
recordValueChangeKeepFirst(vs, t, key, value) ==
    IF t.nodesAlreadyCalculated
    THEN [t |-> t, err |-> ErrNodesAlreadyCalculated]
    ELSE IF key \in DOMAIN t.values
    THEN [t |-> t, err |-> NoErr]
    ELSE LET recorded(b) ==
                IF b.err # NoErr
                THEN [t |-> t, err |-> b.err]
                ELSE [t |-> [t EXCEPT !.values =
                               Put(@, key, [before |-> b.val, after |-> value])],
                      err |-> NoErr]
         IN  recorded(trieGetValue(vs, getParentTrie(t), key))

\* recordValueChange without the check of nodesAlreadyCalculated
recordValueChangeUnguarded(vs, t, key, value) ==
    IF key \in DOMAIN t.values
    THEN [t |-> [t EXCEPT !.values[key].after = value], err |-> NoErr]
    ELSE LET recorded(b) ==
                IF b.err # NoErr
                THEN [t |-> t, err |-> b.err]
                ELSE [t |-> [t EXCEPT !.values =
                               Put(@, key, [before |-> b.val, after |-> value])],
                      err |-> NoErr]
         IN  recorded(trieGetValue(vs, getParentTrie(t), key))

\* a plausible slip: recording a value change already marks the root as a
\* changed node
recordValueChangeMarksRoot(vs, t, key, value) ==
    IF t.nodesAlreadyCalculated
    THEN [t |-> t, err |-> ErrNodesAlreadyCalculated]
    ELSE IF key \in DOMAIN t.values
    THEN [t |-> [t EXCEPT !.values[key].after = value], err |-> NoErr]
    ELSE LET recorded(b) ==
                IF b.err # NoErr
                THEN [t |-> t, err |-> b.err]
                ELSE [t |-> [t EXCEPT !.values =
                               Put(@, key, [before |-> b.val, after |-> value]),
                                      !.nodes =
                               Put(@, emptyKey, [before |-> t.root, after |-> t.root])],
                      err |-> NoErr]
         IN  recorded(trieGetValue(vs, getParentTrie(t), key))

recordValueChange(vs, t, key, value) ==
    IF t.nodesAlreadyCalculated
    THEN [t |-> t, err |-> ErrNodesAlreadyCalculated]
    ELSE IF key \in DOMAIN t.values
    THEN [t |-> [t EXCEPT !.values[key].after = value], err |-> NoErr]
    ELSE LET recorded(b) ==
                IF b.err # NoErr
                THEN [t |-> t, err |-> b.err]
                ELSE [t |-> [t EXCEPT !.values =
                               Put(@, key, [before |-> b.val, after |-> value])],
                      err |-> NoErr]
         IN  recorded(trieGetValue(vs, getParentTrie(t), key))

\* a plausible slip: a repeated recording moves the node recorded so far
\* into before
recordKeyChangeRecaptures(vs, t, key, after, isNew) ==
    IF t.nodesAlreadyCalculated
    THEN [t |-> t, err |-> ErrNodesAlreadyCalculated]
    ELSE IF key \in DOMAIN t.nodes
    THEN [t |-> [t EXCEPT !.nodes[key] = [before |-> @.after, after |-> after]],
          err |-> NoErr]
    ELSE IF isNew
    THEN [t |-> [t EXCEPT !.nodes = Put(@, key, [before |-> NilNode, after |-> after])],
          err |-> NoErr]
    ELSE LET recorded(b) ==
                IF b.err # NoErr /\ b.err # ErrNotFound
                THEN [t |-> t, err |-> b.err]
                ELSE [t |-> [t EXCEPT !.nodes =
                               Put(@, key, [before |-> b.node, after |-> after])],
                      err |-> NoErr]
             withValue(val) ==
                IF val.err # NoErr
                THEN [t |-> t, err |-> val.err]
                ELSE recorded(trieGetEditableNode(vs, getParentTrie(t), key,
                                                  HasValue(val.val)))
         IN  withValue(trieGetValue(vs, getParentTrie(t), key))

recordKeyChange(vs, t, key, after, isNew) ==
    IF t.nodesAlreadyCalculated
    THEN [t |-> t, err |-> ErrNodesAlreadyCalculated]
    ELSE IF key \in DOMAIN t.nodes
    THEN [t |-> [t EXCEPT !.nodes[key].after = after], err |-> NoErr]
    ELSE IF isNew
    THEN [t |-> [t EXCEPT !.nodes = Put(@, key, [before |-> NilNode, after |-> after])],
          err |-> NoErr]
    ELSE LET recorded(b) ==
                IF b.err # NoErr /\ b.err # ErrNotFound
                THEN [t |-> t, err |-> b.err]
                ELSE [t |-> [t EXCEPT !.nodes =
                               Put(@, key, [before |-> b.node, after |-> after])],
                      err |-> NoErr]
             withValue(val) ==
                IF val.err # NoErr
                THEN [t |-> t, err |-> val.err]
                ELSE recorded(trieGetEditableNode(vs, getParentTrie(t), key,
                                                  HasValue(val.val)))
         IN  withValue(trieGetValue(vs, getParentTrie(t), key))

recordNewNode(vs, t, key, after) == recordKeyChange(vs, t, key, after, TRUE)
recordNodeChange(vs, t, key, after) == recordKeyChange(vs, t, key, after, FALSE)
\* a plausible slip: the root is recorded as deleted like any other node
recordNodeDeletedAnyKey(vs, t, key, after) ==
    recordKeyChange(vs, t, key, NilNode, FALSE)

recordNodeDeleted(vs, t, key, after) ==
    IF Len(key) = 0
    THEN recordKeyChange(vs, t, key, after, FALSE)
    ELSE recordKeyChange(vs, t, key, NilNode, FALSE)

(***************************************************************************)
(* visitPathToKey: the nodes from the root to [key], or to the deepest     *)
(* node whose key is a prefix of [key].  [path] holds what visitNode was   *)
(* called with, in order; [err] is the error of getNode, if any.           *)
(***************************************************************************)
\* a plausible slip: the walk stops before a child whose key is [key] itself
RECURSIVE visitFromProperPrefix(_, _, _, _, _, _)
visitFromProperPrefix(vs, t, key, currentKey, currentNode, path) ==
    LET visited == Append(path, [key |-> currentKey, node |-> currentNode])
    IN  IF Len(currentKey) >= Len(key)
        THEN [err |-> NoErr, path |-> visited]
        ELSE LET index == Token(key, Len(currentKey))
             IN  IF \/ index \notin DOMAIN currentNode.children
                    \/ ~iteratedHasPrefix(key,
                                          currentNode.children[index].compressedKey,
                                          Len(currentKey) + tokenSize)
                    \/ Len(key) = Len(currentKey) + tokenSize
                                  + Len(currentNode.children[index].compressedKey)
                 THEN [err |-> NoErr, path |-> visited]
                 ELSE LET nextChildEntry == currentNode.children[index]
                          nextKey == Take(key, Len(currentKey) + tokenSize
                                               + Len(nextChildEntry.compressedKey))
                          next(got) ==
                            IF got.err # NoErr
                            THEN [err |-> got.err, path |-> visited]
                            ELSE visitFromProperPrefix(vs, t, key, nextKey, got.node, visited)
                      IN  next(getNode(vs, t, nextKey, nextChildEntry.hasValue))

RECURSIVE visitFrom(_, _, _, _, _, _)
visitFrom(vs, t, key, currentKey, currentNode, path) ==
    LET visited == Append(path, [key |-> currentKey, node |-> currentNode])
    IN  IF Len(currentKey) >= Len(key)
        THEN [err |-> NoErr, path |-> visited]
        ELSE LET index == Token(key, Len(currentKey))
             IN  IF \/ index \notin DOMAIN currentNode.children
                    \/ ~iteratedHasPrefix(key,
                                          currentNode.children[index].compressedKey,
                                          Len(currentKey) + tokenSize)
                 THEN [err |-> NoErr, path |-> visited]
                 ELSE LET nextChildEntry == currentNode.children[index]
                          nextKey == Take(key, Len(currentKey) + tokenSize
                                               + Len(nextChildEntry.compressedKey))
                          next(got) ==
                            IF got.err # NoErr
                            THEN [err |-> got.err, path |-> visited]
                            ELSE visitFrom(vs, t, key, nextKey, got.node, visited)
                      IN  next(getNode(vs, t, nextKey, nextChildEntry.hasValue))

visitPathToKey(vs, t, key) == visitFrom(vs, t, key, emptyKey, t.root, <<>>)

\* visitPathToKey with the visitNode of insert and remove: recordNodeChange
RECURSIVE recordPath(_, _, _, _)
recordPath(vs, t, path, i) ==
    IF i > Len(path)
    THEN [t |-> t, err |-> NoErr]
    ELSE LET next(r) ==
                IF r.err # NoErr THEN r ELSE recordPath(vs, r.t, path, i + 1)
         IN  next(recordNodeChange(vs, t, path[i].key, path[i].node))

visitAndRecord(vs, t, key) ==
    LET recorded(p, r) ==
            [t |-> r.t,
             err |-> IF r.err # NoErr THEN r.err ELSE p.err,
             keys |-> [i \in 1..Len(p.path) |-> p.path[i].key]]
        visited(p) == recorded(p, recordPath(vs, t, p.path, 1))
    IN  visited(visitPathToKey(vs, t, key))

(***************************************************************************)
(* insert, remove, compressNodePath.                                       *)
(***************************************************************************)
\* a step that needs the view of the step before: its error ends the call
thenRecordNewNode(vs, r, key, after) ==
    IF r.err # NoErr THEN r ELSE recordNewNode(vs, r.t, key, after)

\* insertBranch that hangs the existing child under the branch with a fresh
\* entry, without its ID and hasValue
insertBranchFreshEntry(vs, t, closestKey, closestNode, key, value, existingChildEntry, commonPrefixLength) ==
    LET branchKey == Take(key, Len(closestKey) + tokenSize + commonPrefixLength)
        oldIndex == Token(existingChildEntry.compressedKey, commonPrefixLength)
        oldEntry == newChild(Skip(existingChildEntry.compressedKey,
                                  commonPrefixLength + tokenSize),
                             EmptyID, FALSE)
        t3 == mutNode(t, closestKey,
                      setChildEntry(closestNode, Token(branchKey, Len(closestKey)),
                          newChild(Skip(branchKey, Len(closestKey) + tokenSize),
                                   EmptyID, FALSE)))
    IN  IF Len(existingChildEntry.compressedKey) <= commonPrefixLength
        THEN [t |-> t, err |-> ErrGetPathToFailure]
        ELSE IF Len(key) = Len(branchKey)
        THEN recordNewNode(vs, t3, branchKey,
                setChildEntry(setValue(newNode, value), oldIndex, oldEntry))
        ELSE thenRecordNewNode(vs,
                recordNewNode(vs, t3, key, setValue(newNode, value)),
                branchKey,
                setChildEntry(
                    setChildEntry(newNode, Token(key, Len(branchKey)),
                        newChild(Skip(key, Len(branchKey) + tokenSize),
                                 EmptyID, FALSE)),
                    oldIndex, oldEntry))

\* insert, the key has to branch off inside the compressed key of the child
\* [existingChildEntry] of the closest node: a branch node takes the place
\* of that child, and holds the value itself or gets the new node as a child
insertBranch(vs, t, closestKey, closestNode, key, value, existingChildEntry, commonPrefixLength) ==
    LET branchKey == Take(key, Len(closestKey) + tokenSize + commonPrefixLength)
        oldIndex == Token(existingChildEntry.compressedKey, commonPrefixLength)
        oldEntry == newChild(Skip(existingChildEntry.compressedKey,
                                  commonPrefixLength + tokenSize),
                             existingChildEntry.id,
                             existingChildEntry.hasValue)
        t3 == mutNode(t, closestKey,
                      setChildEntry(closestNode, Token(branchKey, Len(closestKey)),
                          newChild(Skip(branchKey, Len(closestKey) + tokenSize),
                                   EmptyID, FALSE)))
    IN  IF Len(existingChildEntry.compressedKey) <= commonPrefixLength
        THEN [t |-> t, err |-> ErrGetPathToFailure]
        ELSE IF Len(key) = Len(branchKey)
        THEN recordNewNode(vs, t3, branchKey,
                setChildEntry(setValue(newNode, value), oldIndex, oldEntry))
        ELSE thenRecordNewNode(vs,
                recordNewNode(vs, t3, key, setValue(newNode, value)),
                branchKey,
                setChildEntry(
                    setChildEntry(newNode, Token(key, Len(branchKey)),
                        newChild(Skip(key, Len(branchKey) + tokenSize),
                                 EmptyID, FALSE)),
                    oldIndex, oldEntry))

\* insert, from the closest node on the path to the key
insertAtClosest(vs, t, closestKey, closestNode, key, value) ==
    IF closestKey = key
    THEN [t |-> mutNode(t, closestKey, setValue(closestNode, value)),
          err |-> NoErr]
    ELSE IF Token(key, Len(closestKey)) \notin DOMAIN closestNode.children
    THEN recordNewNode(vs,
            mutNode(t, closestKey,
                    setChildEntry(closestNode, Token(key, Len(closestKey)),
                        newChild(Skip(key, Len(closestKey) + tokenSize),
                                 EmptyID, FALSE))),
            key, setValue(newNode, value))
    ELSE insertBranch(vs, t, closestKey, closestNode, key, value,
            closestNode.children[Token(key, Len(closestKey))],
            getLengthOfCommonPrefix(
                closestNode.children[Token(key, Len(closestKey))].compressedKey,
                key, Len(closestKey) + tokenSize))

\* insert, once the path to the key was walked and recorded
insertVisited(vs, w, key, value) ==
    IF w.err # NoErr
    THEN [t |-> w.t, err |-> w.err]
    ELSE insertAtClosest(vs, w.t, w.keys[Len(w.keys)],
                         nodeAt(w.t, w.keys[Len(w.keys)]), key, value)

\* insert, once the value change was recorded
insertRecorded(vs, r, key, value) ==
    IF r.err # NoErr THEN r
    ELSE insertVisited(vs, visitAndRecord(vs, r.t, key), key, value)

insert(vs, t, key, value) ==
    IF t.nodesAlreadyCalculated
    THEN [t |-> t, err |-> ErrNodesAlreadyCalculated]
    ELSE insertRecorded(vs, recordValueChange(vs, t, key, value), key, value)

\* compressNodePath, once the node was recorded as deleted: its only child
\* becomes a child of the parent
compressIntoParent(vs, r, parentKey, nodeKey, index, childEntry) ==
    IF r.err # NoErr THEN r ELSE
    LET childKey == Extend(nodeKey, index, childEntry.compressedKey)
        parent == setChildEntry(nodeAt(r.t, parentKey),
                                Token(childKey, Len(parentKey)),
                                newChild(Skip(childKey, Len(parentKey) + tokenSize),
                                         childEntry.id, childEntry.hasValue))
    IN  recordNodeChange(vs, mutNode(r.t, parentKey, parent), parentKey, parent)

\* compressNodePath, with the node and what getValue returns for its key
compressNode(vs, t, hasParent, parentKey, node, nodeKey, val) ==
    IF val.err # NoErr THEN [t |-> t, err |-> val.err] ELSE
    IF ~hasParent \/ Cardinality(DOMAIN node.children) # 1 \/ HasValue(val.val)
    THEN [t |-> t, err |-> NoErr]
    ELSE compressIntoParent(vs, recordNodeDeleted(vs, t, nodeKey, node),
            parentKey, nodeKey,
            CHOOSE i \in DOMAIN node.children : TRUE,
            node.children[CHOOSE i \in DOMAIN node.children : TRUE])

\* [hasParent] is false for a nil [parent]
compressNodePath(vs, t, hasParent, parentKey, nodeKey) ==
    IF t.nodesAlreadyCalculated
    THEN [t |-> t, err |-> ErrNodesAlreadyCalculated]
    ELSE compressNode(vs, t, hasParent, parentKey, nodeAt(t, nodeKey), nodeKey,
                      getValue(vs, t, nodeKey))

\* remove, once the childless node was recorded as deleted: the parent loses
\* the child entry and is compressed
removeFromParent(vs, r, hasParent, parentKey, hasGrandParent, grandParentKey, nodeToDeleteKey) ==
    IF r.err # NoErr THEN r ELSE
    IF hasParent
    THEN compressNodePath(vs,
            mutNode(r.t, parentKey,
                    deleteChildEntry(nodeAt(r.t, parentKey),
                                     Token(nodeToDeleteKey, Len(parentKey)))),
            hasGrandParent, grandParentKey, parentKey)
    ELSE r

\* remove, with the view in which the node the walk ended on has lost its
\* value; [keys] are the keys of the nodes on the path, the last one
\* [nodeToDeleteKey]
removeNode(vs, t, keys, nodeToDeleteKey, nodeToDelete) ==
    LET n == Len(keys)
        hasParent == n >= 2
        parentKey == IF n >= 2 THEN keys[n - 1] ELSE emptyKey
        hasGrandParent == n >= 3
        grandParentKey == IF n >= 3 THEN keys[n - 2] ELSE emptyKey
    IN  IF DOMAIN nodeToDelete.children # {}
        THEN compressNodePath(vs, t, hasParent, parentKey, nodeToDeleteKey)
        ELSE removeFromParent(vs,
                recordNodeDeleted(vs, t, nodeToDeleteKey, nodeToDelete),
                hasParent, parentKey, hasGrandParent, grandParentKey,
                nodeToDeleteKey)

\* remove, once the path to the key was walked and recorded: the node the
\* walk ended on loses its value
removeVisited(vs, w) ==
    IF w.err # NoErr
    THEN [t |-> w.t, err |-> w.err]
    ELSE removeNode(vs,
            mutNode(w.t, w.keys[Len(w.keys)],
                    setValue(nodeAt(w.t, w.keys[Len(w.keys)]), Nothing)),
            w.keys, w.keys[Len(w.keys)],
            setValue(nodeAt(w.t, w.keys[Len(w.keys)]), Nothing))

\* a plausible slip: the key is removed from the trie although the parent
\* held no value for it
removeRecordedUnchecked(vs, r, key) ==
    IF r.err # NoErr THEN r ELSE
    IF HasValue(r.t.values[key].after)
    THEN r
    ELSE removeVisited(vs, visitAndRecord(vs, r.t, key))

\* remove, once the value change was recorded: nothing more to do when the
\* key had no value before
removeRecorded(vs, r, key) ==
    IF r.err # NoErr THEN r ELSE
    IF r.t.values[key].before = Nothing \/ HasValue(r.t.values[key].after)
    THEN r
    ELSE removeVisited(vs, visitAndRecord(vs, r.t, key))

remove(vs, t, key) ==
    IF t.nodesAlreadyCalculated
    THEN [t |-> t, err |-> ErrNodesAlreadyCalculated]
    ELSE removeRecorded(vs, recordValueChange(vs, t, key, Nothing), key)

(***************************************************************************)
(* calculateNodeIDsHelper: the IDs of the changed descendants of the node  *)
(* at [key], then its own.  The children are independent of each other, so *)
(* the goroutines' results do not depend on their schedule; every permit a *)
(* goroutine takes with TryAcquire it releases when it ends.               *)
(***************************************************************************)
RECURSIVE calculateNodeIDsHelper(_, _, _)
RECURSIVE updateChildren(_, _, _, _)

RECURSIVE updateChildrenKeepFlag(_, _, _, _)

\* updateChildren that keeps the hasValue of the entry it rewrites
updateChildrenKeepFlag(vs, t, key, todo) ==
    IF todo = {}
    THEN [t |-> t, err |-> NoErr]
    ELSE
    LET childIndex == CHOOSE i \in todo : TRUE
        childKey ==
            Extend(key, childIndex, nodeAt(t, key).children[childIndex].compressedKey)
        entered(r, n2) ==
            updateChildrenKeepFlag(vs,
                mutNode(r.t, key,
                    setChildEntry(n2, childIndex,
                        newChild(n2.children[childIndex].compressedKey,
                                 r.id,
                                 n2.children[childIndex].hasValue))),
                key, todo \ {childIndex})
        calculated(r) ==
            IF r.err # NoErr THEN [t |-> r.t, err |-> r.err]
            ELSE entered(r, nodeAt(r.t, key))
        withValue(val) ==
            IF val.err # NoErr THEN [t |-> t, err |-> val.err] ELSE
            IF t.nodes[childKey].after = NilNode THEN [t |-> t, err |-> Panic]
            ELSE calculated(calculateNodeIDsHelper(vs, t, childKey))
    IN  withValue(getValue(vs, t, childKey))

\* the children of the node at [key] that are in changes.nodes, one by one
updateChildren(vs, t, key, todo) ==
    IF todo = {}
    THEN [t |-> t, err |-> NoErr]
    ELSE
    LET childIndex == CHOOSE i \in todo : TRUE
        childKey ==
            Extend(key, childIndex, nodeAt(t, key).children[childIndex].compressedKey)
        entered(r, n2) ==
            updateChildren(vs,
                mutNode(r.t, key,
                    setChildEntry(n2, childIndex,
                        newChild(n2.children[childIndex].compressedKey,
                                 r.id,
                                 HasValue(nodeAt(r.t, childKey).value)))),
                key, todo \ {childIndex})
        calculated(r) ==
            IF r.err # NoErr THEN [t |-> r.t, err |-> r.err]
            ELSE entered(r, nodeAt(r.t, key))
        withValue(val) ==
            IF val.err # NoErr THEN [t |-> t, err |-> val.err] ELSE
            IF t.nodes[childKey].after = NilNode THEN [t |-> t, err |-> Panic]
            ELSE calculated(calculateNodeIDsHelper(vs, t, childKey))
    IN  withValue(getValue(vs, t, childKey))

\* calculateNodeIDsHelper that follows only the entries of nodes the view created
calculateNodeIDsHelperNewOnly(vs, t, key) ==
    LET n == nodeAt(t, key)
        changed == {i \in DOMAIN n.children :
                        /\ Extend(key, i, n.children[i].compressedKey) \in DOMAIN t.nodes
                        /\ t.nodes[Extend(key, i, n.children[i].compressedKey)].before
                                = NilNode}
        updated(r) ==
            IF r.err # NoErr
            THEN [t |-> r.t, id |-> EmptyID, err |-> r.err]
            ELSE [t |-> r.t, id |-> calculateID(key, nodeAt(r.t, key)), err |-> NoErr]
    IN  updated(updateChildren(vs, t, key, changed))

calculateNodeIDsHelper(vs, t, key) ==
    LET n == nodeAt(t, key)
        changed == {i \in DOMAIN n.children :
                        Extend(key, i, n.children[i].compressedKey) \in DOMAIN t.nodes}
        updated(r) ==
            IF r.err # NoErr
            THEN [t |-> r.t, id |-> EmptyID, err |-> r.err]
            ELSE [t |-> r.t, id |-> calculateID(key, nodeAt(r.t, key)), err |-> NoErr]
    IN  updated(updateChildren(vs, t, key, changed))

(***************************************************************************)
(* The body that calculateNodeIDs hands to calculateNodesOnce, in its      *)
(* steps: the check at entry, one insert or remove per changed value, then *)
(* the computation of the IDs.                                             *)
(***************************************************************************)
\* the entry of the body: an invalid view fails before anything is deferred
calcEntryErr(t) == IF isInvalid(t) THEN ErrInvalid ELSE NoErr

\* a plausible slip: the loop applies what the parent held
applyValueChangeBefore(vs, t, key) ==
    IF t.values[key].before = Nothing
    THEN remove(vs, t, key)
    ELSE insert(vs, t, key, t.values[key].before)

\* one iteration of the loop over changes.values
applyValueChange(vs, t, key) ==
    IF t.values[key].after = Nothing
    THEN remove(vs, t, key)
    ELSE insert(vs, t, key, t.values[key].after)

\* the orders in which a set of keys can be taken
Orders(S) ==
    {o \in [1..Cardinality(S) -> S] : \A i, j \in DOMAIN o : o[i] = o[j] => i = j}

\* after the loop: Acquire, getValue(vs, emptyKey), the helper, Release, the last
\* validity check.  [permits] is what the semaphore holds afterwards.
calcIDs(vs, t, permits) ==
    LET calculated(r) ==
            IF r.err # NoErr
            THEN [t |-> [r.t EXCEPT !.rootID = r.id], err |-> r.err,
                  permits |-> permits - 1]
            ELSE [t |-> [r.t EXCEPT !.rootID = r.id],
                  err |-> IF isInvalid(r.t) THEN ErrInvalid ELSE NoErr,
                  permits |-> permits]
        withValue(val) ==
            IF val.err # NoErr
            THEN [t |-> t, err |-> val.err, permits |-> permits - 1]
            ELSE calculated(calculateNodeIDsHelper(vs, t, emptyKey))
    IN  withValue(getValue(vs, t, emptyKey))

\* the deferred nodesAlreadyCalculated.Set(true), and the Once is used up
calcReturn(t) ==
    [t EXCEPT !.nodesAlreadyCalculated = TRUE, !.calculateNodesOnce = "done"]

\* the whole body, with the changed values applied in the order [order]
RECURSIVE applyInOrder(_, _, _, _)
applyInOrder(vs, t, order, i) ==
    IF i > Len(order)
    THEN [t |-> t, err |-> NoErr]
    ELSE LET next(r) ==
                IF r.err # NoErr THEN r ELSE applyInOrder(vs, r.t, order, i + 1)
         IN  next(applyValueChange(vs, t, order[i]))

calcBody(vs, t, order, permits) ==
    IF calcEntryErr(t) # NoErr
    THEN [t |-> [t EXCEPT !.calculateNodesOnce = "done"],
          err |-> calcEntryErr(t), permits |-> permits]
    ELSE LET calculated(c) ==
                [t |-> calcReturn(c.t), err |-> c.err, permits |-> c.permits]
             applied(a) ==
                IF a.err # NoErr
                THEN [t |-> calcReturn(a.t), err |-> a.err, permits |-> permits]
                ELSE calculated(calcIDs(vs, a.t, permits))
         IN  applied(applyInOrder(vs, t, order, 1))

(***************************************************************************)
(* The state.                                                              *)
(*   db     the database: its key->value map, its trie, its child views    *)
(*          and the permits of calculateNodeIDsSema                        *)
(*   views  the trieViews                                                  *)
(*   mat    where the construction and the materialisation of view 1 stand,*)
(*          and for each view the trie it was built over and the trie      *)
(*          whose NewView made it, and how often the body of               *)
(*          calculateNodeIDs was entered                                   *)
(*   ret    the last call that returned, and its error                     *)
(*   thr    the threads that call into view 1                              *)
(***************************************************************************)
newView(parent, root) ==
    [exists |-> TRUE,
     parentTrie |-> parent,
     invalidated |-> FALSE,
     committed |-> FALSE,
     childViews |-> <<>>,
     values |-> EmptyMap,
     nodes |-> EmptyMap,
     root |-> root,
     rootID |-> EmptyID,
     nodesAlreadyCalculated |-> FALSE,
     calculateNodesOnce |-> "new"]

NoView == [newView(DB, newNode) EXCEPT !.exists = FALSE]

newDB(m) ==
    [values |-> m, nodes |-> RefNodes(m), childViews |-> <<>>,
     sema |-> SemaCapacity]

ParentMaps ==
    {[k \in S |-> "v1"] : S \in {S \in SUBSET Keys : Cardinality(S) <= MaxParentKeys}}

NoRet == [op |-> "none", err |-> NoErr]
NoMat ==
    [phase |-> "none", pending |-> {}, err |-> NoErr, last |-> EmptyMap,
     nops |-> 0, calls |-> 0, runs |-> 0, over |-> EmptyMap, origin |-> EmptyMap]
NoThr ==
    [i \in 1..MaxThreads |-> [pc |-> "idle", op |-> "none", err |-> NoErr, calls |-> 0]]

(***************************************************************************)
(* The life of a view: calculateNodeIDs as a caller sees it, NewView,      *)
(* commit and invalidation.  [vs] and [d] are the views and the database   *)
(* the call works on; the result carries them as the call leaves them.     *)
(***************************************************************************)
\* calculateNodeIDs: the caller that finds the Once used up returns its own
\* [err], which nothing has set; the first caller runs the body
calculateNodeIDs(vs, t, order, permits) ==
    IF t.calculateNodesOnce = "done"
    THEN [t |-> t, err |-> NoErr, permits |-> permits]
    ELSE calcBody(vs, t, order, permits)

\* the body would wait for a permit that is not there
calcBlocks(vs, t, order, permits) ==
    /\ t.calculateNodesOnce # "done"
    /\ calcEntryErr(t) = NoErr
    /\ applyInOrder(vs, t, order, 1).err = NoErr
    /\ permits < 1

GetMerkleRoot(vs, t, order, permits) ==
    LET calculated(c) ==
            [t |-> c.t, permits |-> c.permits, err |-> c.err,
             id |-> IF c.err # NoErr THEN EmptyID ELSE c.t.rootID]
    IN  calculated(calculateNodeIDs(vs, t, order, permits))

\* getValueDigest: a value shorter than the hash is its own digest, and the
\* values of this model are
getValueDigest(val) == val

asProofNode(n, key, value) ==
    [key |-> key,
     children |-> [i \in DOMAIN n.children |-> n.children[i].id],
     valueOrHash |-> getValueDigest(value)]

NoProof == [key |-> emptyKey, value |-> Nothing, path |-> <<>>]

\* the visitNode of getProof over the nodes visitPathToKey visited: the first
\* getValue that fails ends the walk
RECURSIVE proofPath(_, _, _, _, _)
proofPath(vs, t, visited, i, path) ==
    IF i > Len(visited)
    THEN [err |-> NoErr, path |-> path]
    ELSE LET visitNode(val) ==
                IF val.err # NoErr
                THEN [err |-> val.err, path |-> path]
                ELSE proofPath(vs, t, visited, i + 1,
                               Append(path, asProofNode(visited[i].node, visited[i].key,
                                                        visited[i].node.value)))
         IN  visitNode(getValue(vs, t, visited[i].key))

\* a plausible slip: the proof ends with the walk, and no child is added
proofWithoutChild(vs, t, key, proof, closestKey, closestNode) ==
    [err |-> NoErr, proof |-> proof]

\* getProof past the walk: the child of the closest node on the way to [key]
\* is added to the proof when there is one
proofWithChild(vs, t, key, proof, closestKey, closestNode) ==
    IF closestKey = key THEN [err |-> NoErr, proof |-> proof] ELSE
    LET nextIndex == Token(key, Len(closestKey))
    IN  IF nextIndex \notin DOMAIN closestNode.children
        THEN [err |-> NoErr, proof |-> proof] ELSE
    LET child == closestNode.children[nextIndex]
        childKey == Extend(closestKey, nextIndex, child.compressedKey)
        added(childNode, childVal) ==
            IF childNode.err # NoErr THEN [err |-> childNode.err, proof |-> NoProof] ELSE
            IF childVal.err # NoErr THEN [err |-> childVal.err, proof |-> NoProof] ELSE
            IF isInvalid(t) THEN [err |-> ErrInvalid, proof |-> NoProof] ELSE
            [err |-> NoErr,
             proof |-> [proof EXCEPT !.path =
                            Append(@, asProofNode(childNode.node, childKey,
                                                  childNode.node.value))]]
    IN  added(getNode(vs, t, childKey, child.hasValue), getValue(vs, t, childKey))

getProof(vs, t, key) ==
    LET walked(value, walk, pp) ==
            IF pp.err # NoErr THEN [err |-> pp.err, proof |-> NoProof] ELSE
            IF walk.err # NoErr THEN [err |-> walk.err, proof |-> NoProof] ELSE
            proofWithChild(vs, t, key,
                           [key |-> key, value |-> value.val, path |-> pp.path],
                           walk.path[Len(walk.path)].key,
                           walk.path[Len(walk.path)].node)
        visited(value, walk) ==
            walked(value, walk, proofPath(vs, t, walk.path, 1, <<>>))
        withValue(value) ==
            IF value.err # NoErr THEN [err |-> value.err, proof |-> NoProof]
            ELSE visited(value, visitPathToKey(vs, t, key))
    IN  withValue(getValue(vs, t, key))

GetProof(vs, t, key, order, permits) ==
    LET proved(c, p) ==
            [t |-> c.t, permits |-> c.permits, err |-> p.err, proof |-> p.proof]
        calculated(c) ==
            IF c.err # NoErr
            THEN [t |-> c.t, permits |-> c.permits, err |-> c.err, proof |-> NoProof]
            ELSE proved(c, getProof(vs, c.t, key))
    IN  calculated(calculateNodeIDs(vs, t, order, permits))

(***************************************************************************)
(* GetRangeProof.  [start] and [end] are maybe-keys: [has] tells whether    *)
(* there is one, and [value] is empty when there is none.                  *)
(***************************************************************************)
\* bytes.Compare: -1, 0 or 1 as [a] comes before, is, or comes after [b] in
\* the order of the dictionary
RECURSIVE Compare(_, _)
Compare(a, b) ==
    CASE a = <<>> /\ b = <<>> -> 0
      [] a = <<>> -> -1
      [] b = <<>> -> 1
      [] a[1] < b[1] -> -1
      [] a[1] > b[1] -> 1
      [] OTHER -> Compare(Tail(a), Tail(b))

\* the keys of [S] in ascending order
RECURSIVE SortedKeys(_)
SortedKeys(S) ==
    IF S = {} THEN <<>>
    ELSE LET least == CHOOSE k \in S : \A other \in S : Compare(k, other) <= 0
         IN  <<least>> \o SortedKeys(S \ {least})

\* NewIteratorWithStart, run to its end: the pairs of the view from [start]
\* on in ascending order of the keys, and ErrInvalid for an invalid view
NewIteratorWithStart(vs, t, start) ==
    IF isInvalid(t)
    THEN [err |-> ErrInvalid, pairs |-> <<>>]
    ELSE LET present == {k \in Keys : /\ Compare(k, start) >= 0
                                      /\ getValue(vs, t, k).err = NoErr
                                      /\ getValue(vs, t, k).val # Nothing}
             sorted == SortedKeys(present)
         IN  [err |-> NoErr,
              pairs |-> [i \in DOMAIN sorted |->
                            [Key |-> sorted[i],
                             Value |-> getValue(vs, t, sorted[i]).val]]]

NoRangeProof == [KeyValues |-> <<>>, StartProof |-> <<>>, EndProof |-> <<>>]

\* the checks of the input, before anything else is done
rangeInputErr(start, end, maxLength) ==
    IF start.has /\ end.has /\ Compare(start.value, end.value) = 1
    THEN ErrStartAfterEnd
    ELSE IF maxLength <= 0 THEN ErrInvalidMaxLength
    ELSE NoErr

\* a plausible slip: the pairs are collected up to [end] whatever their number
rangeKeyValuesUnbounded(pairs, end, maxLength, i, out) ==
    SelectSeq(pairs, LAMBDA kv : ~end.has \/ Compare(kv.Key, end.value) <= 0)

\* the loop over the iterator: pairs are taken while there are fewer than
\* [maxLength] of them and the key is not past [end]
RECURSIVE rangeKeyValues(_, _, _, _, _)
rangeKeyValues(pairs, end, maxLength, i, out) ==
    IF /\ i <= Len(pairs)
       /\ Len(out) < maxLength
       /\ (~end.has \/ Compare(pairs[i].Key, end.value) <= 0)
    THEN rangeKeyValues(pairs, end, maxLength, i + 1, Append(out, pairs[i]))
    ELSE out

\* a plausible slip: the end proof is the proof of the requested end
rangeEndProofOfEnd(vs, t, keyValues, end) ==
    IF end.has THEN getProof(vs, t, end.value)
    ELSE IF Len(keyValues) > 0
    THEN getProof(vs, t, keyValues[Len(keyValues)].Key)
    ELSE [err |-> NoErr, proof |-> NoProof]

\* the end proof: of the greatest key taken, or of [end] when none was taken
rangeEndProof(vs, t, keyValues, end) ==
    IF Len(keyValues) > 0
    THEN getProof(vs, t, keyValues[Len(keyValues)].Key)
    ELSE IF end.has THEN getProof(vs, t, end.value)
    ELSE [err |-> NoErr, proof |-> NoProof]

\* a plausible slip: the start proof is kept whole
stripCommonNodesKept(startProof, endProof) == startProof

\* the nodes the start proof has in common with the end proof, position by
\* position from the root, are dropped
stripCommonNodes(startProof, endProof) ==
    LET common == {i \in 0..Len(startProof) :
                    /\ i <= Len(endProof)
                    /\ \A j \in 1..i : startProof[j].key = endProof[j].key}
        n == CHOOSE i \in common : \A j \in common : j <= i
    IN  SubSeq(startProof, n + 1, Len(startProof))

\* a plausible slip: an empty range is returned with nothing in it
rangeRootProofLeftOut(vs, t, result) ==
    [err |-> NoErr, proof |-> result]

\* the proof of the root stands in for a proof that has nothing in it
rangeRootProof(vs, t, result) ==
    IF /\ Len(result.StartProof) = 0
       /\ Len(result.EndProof) = 0
       /\ Len(result.KeyValues) = 0
    THEN LET rooted(rootProof) ==
                IF rootProof.err # NoErr
                THEN [err |-> rootProof.err, proof |-> NoRangeProof]
                ELSE [err |-> NoErr,
                      proof |-> [result EXCEPT !.EndProof = rootProof.proof.path]]
         IN  rooted(getProof(vs, t, emptyKey))
    ELSE [err |-> NoErr, proof |-> result]

\* GetRangeProof once calculateNodeIDs has returned without error
rangeProofOfView(vs, t, start, end, maxLength) ==
    LET done(r) ==
            IF r.err # NoErr THEN r
            ELSE IF isInvalid(t) THEN [err |-> ErrInvalid, proof |-> NoRangeProof]
            ELSE r
        withStart(keyValues, endPath, startProof) ==
            IF startProof.err # NoErr
            THEN [err |-> startProof.err, proof |-> NoRangeProof]
            ELSE done(rangeRootProof(vs, t,
                        [KeyValues |-> keyValues,
                         StartProof |-> stripCommonNodes(startProof.proof.path, endPath),
                         EndProof |-> endPath]))
        withEnd(keyValues, endProof) ==
            IF endProof.err # NoErr
            THEN [err |-> endProof.err, proof |-> NoRangeProof]
            ELSE IF start.has
            THEN withStart(keyValues, endProof.proof.path, getProof(vs, t, start.value))
            ELSE done(rangeRootProof(vs, t,
                        [KeyValues |-> keyValues,
                         StartProof |-> <<>>,
                         EndProof |-> endProof.proof.path]))
        collected(keyValues) ==
            withEnd(keyValues, rangeEndProof(vs, t, keyValues, end))
        iterated(it) ==
            IF it.err # NoErr
            THEN [err |-> it.err, proof |-> NoRangeProof]
            ELSE collected(rangeKeyValues(it.pairs, end, maxLength, 1, <<>>))
    IN  iterated(NewIteratorWithStart(vs, t, start.value))

\* a plausible slip: the input is looked at after the IDs were calculated
GetRangeProofLateChecks(vs, t, start, end, maxLength, order, permits) ==
    LET calculated(c) ==
            [t |-> c.t, permits |-> c.permits,
             err |-> IF c.err # NoErr THEN c.err
                     ELSE rangeInputErr(start, end, maxLength),
             proof |-> NoRangeProof]
    IN  calculated(calculateNodeIDs(vs, t, order, permits))

GetRangeProof(vs, t, start, end, maxLength, order, permits) ==
    LET proved(c, p) ==
            [t |-> c.t, permits |-> c.permits, err |-> p.err, proof |-> p.proof]
        calculated(c) ==
            IF c.err # NoErr
            THEN [t |-> c.t, permits |-> c.permits, err |-> c.err,
                  proof |-> NoRangeProof]
            ELSE proved(c, rangeProofOfView(vs, c.t, start, end, maxLength))
    IN  IF rangeInputErr(start, end, maxLength) # NoErr
        THEN [t |-> t, permits |-> permits,
              err |-> rangeInputErr(start, end, maxLength), proof |-> NoRangeProof]
        ELSE calculated(calculateNodeIDs(vs, t, order, permits))

\* an operation of a batch: a put of [value], or a delete when it is Nothing
BatchOp(key, value) == [key |-> key, value |-> value]

RECURSIVE recordBatchOps(_, _, _, _)
recordBatchOps(vs, t, batch, i) ==
    IF i > Len(batch)
    THEN [t |-> t, err |-> NoErr]
    ELSE LET next(r) ==
                IF r.err # NoErr
                THEN [t |-> NoView, err |-> r.err]
                ELSE recordBatchOps(vs, r.t, batch, i + 1)
         IN  next(recordValueChange(vs, t, batch[i].key, batch[i].value))

\* a plausible slip: whatever the parent answers, the error is ErrNoValidRoot
newTrieViewAnyError(vs, parentTrie, batch) ==
    LET withRoot(got) ==
            IF got.err # NoErr
            THEN [t |-> NoView, err |-> ErrNoValidRoot]
            ELSE recordBatchOps(vs, newView(parentTrie, got.node), batch, 1)
    IN  withRoot(trieGetEditableNode(vs, parentTrie, emptyKey, FALSE))

newTrieView(vs, parentTrie, batch) ==
    LET withRoot(got) ==
            IF got.err # NoErr
            THEN [t |-> NoView,
                  err |-> IF got.err = ErrNotFound THEN ErrNoValidRoot ELSE got.err]
            ELSE recordBatchOps(vs, newView(parentTrie, got.node), batch, 1)
    IN  withRoot(trieGetEditableNode(vs, parentTrie, emptyKey, FALSE))

\* the result of a call that changes views and database
Outcome(vs, d, err) == [views |-> vs, db |-> d, err |-> err]

\* the database's NewView: the view is built over the database and tracked
dbNewView(vs, d, batch, new) ==
    LET tracked(nv) ==
            IF nv.err # NoErr
            THEN Outcome(vs, d, nv.err)
            ELSE Outcome([vs EXCEPT ![new] = nv.t],
                         [d EXCEPT !.childViews = Append(@, new)], NoErr)
    IN  tracked(newTrieView(vs, DB, batch))

\* the trie that ends up serving a NewView sent to [id]: a committed view
\* hands the call to its parent
RECURSIVE newViewReceiver(_, _)
newViewReceiver(vs, id) ==
    IF id = DB \/ isInvalid(vs[id]) \/ ~vs[id].committed
    THEN id
    ELSE newViewReceiver(vs, getParentTrie(vs[id]))

\* NewView once calculateNodeIDs has returned without error: the view is
\* built, and tracked unless the parent turned invalid
newViewOver(vs, d, id, batch, new) ==
    LET tracked(nv) ==
            IF nv.err # NoErr THEN Outcome(vs, d, nv.err) ELSE
            IF vs[id].invalidated THEN Outcome(vs, d, ErrInvalid) ELSE
            Outcome([vs EXCEPT ![id].childViews = Append(@, new), ![new] = nv.t],
                    d, NoErr)
    IN  tracked(newTrieView(vs, id, batch))

\* NewView; [order] is the order in which the receiver applies its changed
\* values should it have to calculate its IDs, [new] the view created
RECURSIVE NewView(_, _, _, _, _, _)
NewView(vs, d, id, batch, order, new) ==
    IF id = DB THEN dbNewView(vs, d, batch, new) ELSE
    IF isInvalid(vs[id]) THEN Outcome(vs, d, ErrInvalid) ELSE
    IF vs[id].committed
    THEN NewView(vs, d, getParentTrie(vs[id]), batch, order, new) ELSE
    LET calculated(vs1, d1, err) ==
            IF err # NoErr THEN Outcome(vs1, d1, err)
            ELSE newViewOver(vs1, d1, id, batch, new)
        afterCalc(c) ==
            calculated([vs EXCEPT ![id] = c.t], [d EXCEPT !.sema = c.permits], c.err)
    IN  afterCalc(calculateNodeIDs(vs, vs[id], order, d.sema))

\* a plausible slip: the view forgets its children without invalidating them
invalidateShallow(vs, id) ==
    [vs EXCEPT ![id].invalidated = TRUE, ![id].childViews = <<>>]

RECURSIVE invalidate(_, _)
invalidate(vs, id) ==
    LET RECURSIVE children(_, _)
        children(w, i) ==
            IF i > Len(vs[id].childViews)
            THEN w
            ELSE children(invalidate(w, vs[id].childViews[i]), i + 1)
    IN  [children([vs EXCEPT ![id].invalidated = TRUE], 1)
            EXCEPT ![id].childViews = <<>>]

updateParent(vs, id, newParent) == [vs EXCEPT ![id].parentTrie = newParent]

\* what a committed change set leaves of a map: the entries whose [after]
\* is [gone] are deleted, the others are set
applyChanges(m, changes, gone) ==
    LET dom == {k \in (DOMAIN m) \cup (DOMAIN changes) :
                    IF k \in DOMAIN changes THEN changes[k].after # gone ELSE TRUE}
    IN  [k \in dom |-> IF k \in DOMAIN changes THEN changes[k].after ELSE m[k]]

\* the views of [list] other than [except] are invalidated
RECURSIVE invalidateChildrenExcept(_, _, _, _)
invalidateChildrenExcept(vs, list, except, i) ==
    IF i > Len(list) THEN vs
    ELSE invalidateChildrenExcept(
            IF list[i] = except THEN vs ELSE invalidate(vs, list[i]),
            list, except, i + 1)

\* the views of [list] get the database as their parent
RECURSIVE moveChildViewsToDB(_, _, _)
moveChildViewsToDB(vs, list, i) ==
    IF i > Len(list) THEN vs
    ELSE moveChildViewsToDB(updateParent(vs, list[i], DB), list, i + 1)

\* the database takes the changes of view [id]: the other views over the
\* database are invalidated with their descendants; the children of the
\* committed view either move to the database ([move]) or are invalidated
commitChanges(vs, d, id, move) ==
    LET t == vs[id]
        committed(vs2) ==
            Outcome([vs2 EXCEPT ![id].childViews = <<>>],
                    [d EXCEPT !.values = applyChanges(@, t.values, Nothing),
                              !.nodes = applyChanges(@, t.nodes, NilNode),
                              !.childViews = IF move THEN <<id>> \o t.childViews
                                             ELSE <<id>>],
                    NoErr)
        othersInvalid(vs1) ==
            committed(IF move
                      THEN moveChildViewsToDB(vs1, t.childViews, 1)
                      ELSE invalidateChildrenExcept(vs1, t.childViews, id, 1))
    IN  IF isInvalid(t) THEN Outcome(vs, d, ErrInvalid) ELSE
        IF t.committed THEN Outcome(vs, d, ErrCommitted) ELSE
        IF getParentTrie(t) # DB THEN Outcome(vs, d, ErrParentNotDatabase) ELSE
        othersInvalid(invalidateChildrenExcept(vs, d.childViews, id, 1))

\* commitToDB once calculateNodeIDs has returned without error
commitCalculated(vs, d, id, move) ==
    LET changed(o) ==
            IF o.err # NoErr THEN o
            ELSE Outcome([o.views EXCEPT ![id].committed = TRUE], o.db, NoErr)
    IN  changed(commitChanges(vs, d, id, move))

commitToDB(vs, d, id, order, move) ==
    LET calculated(vs1, d1, err) ==
            IF err # NoErr THEN Outcome(vs1, d1, err)
            ELSE commitCalculated(vs1, d1, id, move)
        afterCalc(c) ==
            calculated([vs EXCEPT ![id] = c.t], [d EXCEPT !.sema = c.permits], c.err)
    IN  afterCalc(calculateNodeIDs(vs, vs[id], order, d.sema))

CommitToDB(vs, d, id, order, move) == commitToDB(vs, d, id, order, move)

(***************************************************************************)
(* One view over the database, built and materialised step by step.        *)
(***************************************************************************)
InitTrie ==
    /\ db \in {newDB(m) : m \in ParentMaps}
    /\ views = [v \in ViewIds |->
                    IF v = 1 THEN newView(DB, db.nodes[emptyKey]) ELSE NoView]
    /\ mat = [NoMat EXCEPT !.phase = "constructing"]
    /\ ret = NoRet
    /\ thr = NoThr

\* newTrieView: one operation of the batch is recorded
NewTrieViewRecord(key, value) ==
    /\ mat.phase = "constructing"
    /\ mat.nops < MaxChanges
    /\ LET recorded(r) ==
                /\ r.err = NoErr
                /\ views' = [views EXCEPT ![1] = r.t]
       IN  recorded(recordValueChange(views, views[1], key, value))
    /\ mat' = [mat EXCEPT !.nops = @ + 1, !.last = Put(@, key, value)]
    /\ UNCHANGED <<db, ret, thr>>

\* newTrieView returns the view, and the parent tracks it
NewTrieViewReturn ==
    /\ mat.phase = "constructing"
    /\ mat' = [mat EXCEPT !.phase = "fresh"]
    /\ db' = [db EXCEPT !.childViews = Append(@, 1)]
    /\ UNCHANGED <<views, ret, thr>>

\* calculateNodeIDs: the first caller enters the body
CalcEnter ==
    /\ mat.phase = "fresh"
    /\ views[1].calculateNodesOnce = "new"
    /\ IF calcEntryErr(views[1]) # NoErr
       THEN /\ views' = [views EXCEPT ![1].calculateNodesOnce = "done"]
            /\ mat' = [mat EXCEPT !.phase = "done", !.err = calcEntryErr(views[1])]
       ELSE /\ views' = [views EXCEPT ![1].calculateNodesOnce = "running"]
            /\ mat' = [mat EXCEPT !.phase = "applying",
                                  !.pending = DOMAIN views[1].values]
    /\ UNCHANGED <<db, ret, thr>>

\* the loop over changes.values takes the changed keys in any order
CalcApply(key) ==
    /\ mat.phase = "applying"
    /\ key \in mat.pending
    /\ LET applied(r) ==
                IF r.err # NoErr
                THEN /\ views' = [views EXCEPT ![1] = calcReturn(r.t)]
                     /\ mat' = [mat EXCEPT !.phase = "done", !.err = r.err,
                                           !.pending = {}]
                ELSE /\ views' = [views EXCEPT ![1] = r.t]
                     /\ mat' = [mat EXCEPT !.pending = @ \ {key}]
       IN  applied(applyValueChange(views, views[1], key))
    /\ UNCHANGED <<db, ret, thr>>

\* the loop is over: the IDs are computed under a permit of the semaphore
CalcIDs ==
    /\ mat.phase = "applying"
    /\ mat.pending = {}
    /\ db.sema >= 1
    /\ LET calculated(c) ==
                /\ views' = [views EXCEPT ![1] = calcReturn(c.t)]
                /\ mat' = [mat EXCEPT !.phase = "done", !.err = c.err]
                /\ db' = [db EXCEPT !.sema = c.permits]
       IN  calculated(calcIDs(views, views[1], db.sema))
    /\ UNCHANGED <<ret, thr>>

\* a caller of the package uses a mutator of the view after calculateNodeIDs
\* has returned
MutatorCall(op, key, value) ==
    /\ mat.phase = "done"
    /\ mat.calls < MaxCalls
    /\ LET t == views[1]
           called(r) ==
                /\ views' = [views EXCEPT ![1] = r.t]
                /\ ret' = [op |-> op, err |-> r.err]
       IN  called(CASE op = "insert" -> insert(views, t, key, value)
                    [] op = "remove" -> remove(views, t, key)
                    [] op = "compressNodePath" ->
                            compressNodePath(views, t, TRUE, emptyKey, key)
                    [] op = "recordValueChange" ->
                            recordValueChange(views, t, key, value)
                    [] op = "recordKeyChange" ->
                            recordKeyChange(views, t, key, newNode, FALSE))
    /\ mat' = [mat EXCEPT !.calls = @ + 1]
    /\ UNCHANGED <<db, thr>>

Mutators ==
    {"insert", "remove", "compressNodePath", "recordValueChange", "recordKeyChange"}

NextTrie ==
    \/ \E key \in Keys, value \in Values \cup {Nothing} : NewTrieViewRecord(key, value)
    \/ NewTrieViewReturn
    \/ CalcEnter
    \/ \E key \in Keys : CalcApply(key)
    \/ CalcIDs
    \/ \E op \in Mutators, key \in Keys : MutatorCall(op, key, "v2")

SpecTrie == InitTrie /\ [][NextTrie]_vars

\* the map the view stands for: the parent's map overridden by the batch
FinalMap(t) ==
    LET present == {k \in (DOMAIN db.values) \cup (DOMAIN t.values) :
                        IF k \in DOMAIN t.values
                        THEN t.values[k].after # Nothing
                        ELSE TRUE}
    IN  [k \in present |->
            IF k \in DOMAIN t.values THEN t.values[k].after ELSE db.values[k]]

Done == mat.phase = "done"

\* the nodes of the view's trie, from the node [n] at [key] down; a child entry
\* that leads to no node is entered with a nil node
RECURSIVE SubTrie(_, _, _, _)
SubTrie(vs, t, key, n) ==
    {[key |-> key, node |-> n]} \cup
    UNION { LET childKey == Extend(key, i, n.children[i].compressedKey)
                got == getNode(vs, t, childKey, n.children[i].hasValue)
            IN  IF got.err # NoErr
                THEN {[key |-> childKey, node |-> NilNode]}
                ELSE SubTrie(vs, t, childKey, got.node)
            : i \in DOMAIN n.children }

Trie(vs, t) == SubTrie(vs, t, emptyKey, t.root)

Compressed(vs, t) ==
    \A e \in Trie(vs, t) :
        \/ e.key = emptyKey
        \/ e.node = NilNode
        \/ hasValue(e.node)
        \/ Cardinality(DOMAIN e.node.children) # 1


(***************************************************************************)
(* Views over views: every call is one step.                               *)
(***************************************************************************)
ViewKeys == {<<0>>}
ViewValues == {"v2", Nothing}
Batches == {<<BatchOp(k, v)>> : k \in ViewKeys, v \in ViewValues}
ViewMaps == {[k \in {<<0>>, <<0, 0>>} |-> "v1"]}

Existing == {v \in ViewIds : views[v].exists}
FreeIds == ViewIds \ Existing
NextId == CHOOSE v \in FreeIds : \A w \in FreeIds : v <= w

\* the orders in which the trie serving a NewView sent to [id] may apply its
\* changed values
ReceiverOrders(vs, id) ==
    IF newViewReceiver(vs, id) = DB
    THEN {<<>>}
    ELSE Orders(DOMAIN vs[newViewReceiver(vs, id)].values)

InitViews ==
    /\ db \in {newDB(m) : m \in ViewMaps}
    /\ views = [v \in ViewIds |-> NoView]
    /\ mat = [NoMat EXCEPT !.phase = "views"]
    /\ ret = NoRet
    /\ thr = NoThr

DbNewViewCall(batch) ==
    /\ mat.phase = "views"
    /\ FreeIds # {}
    /\ LET called(o) ==
                /\ views' = o.views
                /\ db' = o.db
                /\ mat' = IF o.err # NoErr THEN mat
                          ELSE [mat EXCEPT !.over = Put(@, NextId, DB),
                                           !.origin = Put(@, NextId, DB)]
       IN  called(NewView(views, db, DB, batch, <<>>, NextId))
    /\ UNCHANGED <<ret, thr>>

NewViewCall(id, batch, order) ==
    /\ mat.phase = "views"
    /\ id \in Existing
    /\ FreeIds # {}
    /\ order \in ReceiverOrders(views, id)
    /\ newViewReceiver(views, id) # DB
        => ~calcBlocks(views, views[newViewReceiver(views, id)], order, db.sema)
    /\ LET called(o) ==
                /\ views' = o.views
                /\ db' = o.db
                /\ mat' = IF o.err # NoErr THEN mat
                          ELSE [mat EXCEPT
                                 !.over = Put(@, NextId, newViewReceiver(views, id)),
                                 !.origin = Put(@, NextId, id)]
       IN  called(NewView(views, db, id, batch, order, NextId))
    /\ UNCHANGED <<ret, thr>>

GetMerkleRootCall(id, order) ==
    /\ mat.phase = "views"
    /\ id \in Existing
    /\ order \in Orders(DOMAIN views[id].values)
    /\ ~calcBlocks(views, views[id], order, db.sema)
    /\ LET called(r) ==
                /\ views' = [views EXCEPT ![id] = r.t]
                /\ db' = [db EXCEPT !.sema = r.permits]
       IN  called(GetMerkleRoot(views, views[id], order, db.sema))
    /\ UNCHANGED <<mat, ret, thr>>

CommitToDBCall(id, order, move) ==
    /\ mat.phase = "views"
    /\ id \in Existing
    /\ order \in Orders(DOMAIN views[id].values)
    /\ ~calcBlocks(views, views[id], order, db.sema)
    /\ LET called(o) ==
                /\ views' = o.views
                /\ db' = o.db
       IN  called(CommitToDB(views, db, id, order, move))
    /\ UNCHANGED <<mat, ret, thr>>

NextViews ==
    \/ \E batch \in Batches : DbNewViewCall(batch)
    \/ \E id \in ViewIds, batch \in Batches :
        \E order \in ReceiverOrders(views, id) : NewViewCall(id, batch, order)
    \/ \E id \in ViewIds :
        \E order \in Orders(DOMAIN views[id].values) : GetMerkleRootCall(id, order)
    \/ \E id \in ViewIds, move \in BOOLEAN :
        \E order \in Orders(DOMAIN views[id].values) : CommitToDBCall(id, order, move)

SpecViews == InitViews /\ [][NextViews]_vars


(***************************************************************************)
(* Threads calling into view 1 at the same time.  View 1 and view 2 are    *)
(* views over the database; committing view 2 invalidates view 1.          *)
(***************************************************************************)
Threads == 1..MaxThreads
OnceOps == {"GetMerkleRoot", "GetProof", "NewView", "CommitToDB"}
OnceBatches ==
    Batches \cup {<<BatchOp(<<0>>, Nothing), BatchOp(<<0, 0>>, Nothing)>>}

\* a plausible slip: a flag tested before the body instead of a Once, so that
\* a second caller enters while the first is still in the body
onceDoRacy(once) == IF once = "done" THEN "return" ELSE "run"

\* calculateNodesOnce.Do: the first caller runs the body, a caller that
\* comes while it runs waits, a caller that comes after it returns at once
onceDo(once) ==
    CASE once = "new" -> "run"
      [] once = "running" -> "wait"
      [] OTHER -> "return"

\* the locks a thread holds follow from where it stands
holdsCommitRLock(i) ==
    thr[i].op = "NewView" /\ thr[i].pc \in {"calc", "body", "after"}
holdsCommitLock(i) ==
    thr[i].op = "CommitToDB" /\ thr[i].pc \in {"calc", "body", "after"}
holdsDbCommitLock(i) ==
    thr[i].op = "CommitToDB" /\ thr[i].pc \in {"lock", "calc", "body", "after"}

returned(i, err) == [thr EXCEPT ![i].pc = "returned", ![i].err = err]

InitOnce ==
    /\ db \in {[newDB(m) EXCEPT !.childViews = <<1, 2>>] : m \in ViewMaps}
    /\ \E b1 \in OnceBatches, b2 \in Batches :
        views = [v \in ViewIds |->
                    CASE v = 1 -> newTrieView([w \in ViewIds |-> NoView], DB, b1).t
                      [] v = 2 -> newTrieView([w \in ViewIds |-> NoView], DB, b2).t
                      [] OTHER -> NoView]
    /\ mat = [NoMat EXCEPT !.phase = "once"]
    /\ ret = NoRet
    /\ thr = NoThr

\* a thread calls [op] on view 1; GetMerkleRoot and GetProof go straight to
\* calculateNodeIDs, CommitToDB first asks for the database's commitLock
Call(i, op) ==
    /\ mat.phase = "once"
    /\ thr[i].pc = "idle"
    /\ thr[i].calls < MaxCalls
    /\ thr' = [thr EXCEPT ![i] = [pc |-> IF op \in {"GetMerkleRoot", "GetProof"}
                                         THEN "calc" ELSE "start",
                                  op |-> op, err |-> NoErr, calls |-> @.calls + 1]]
    /\ UNCHANGED <<db, views, mat, ret>>

\* NewView: the validity check before the lock
NewViewCheck(i) ==
    /\ thr[i].pc = "start" /\ thr[i].op = "NewView"
    /\ thr' = IF isInvalid(views[1]) THEN returned(i, ErrInvalid)
              ELSE [thr EXCEPT ![i].pc = "rlock"]
    /\ UNCHANGED <<db, views, mat, ret>>

\* NewView: commitLock.RLock; a committed view hands the call to its parent
NewViewRLock(i, batch) ==
    /\ thr[i].pc = "rlock"
    /\ \A j \in Threads : ~holdsCommitLock(j)
    /\ IF views[1].committed
       THEN /\ FreeIds # {}
            /\ LET called(o) ==
                        /\ views' = o.views
                        /\ db' = o.db
                        /\ thr' = returned(i, o.err)
               IN  called(NewView(views, db, getParentTrie(views[1]), batch,
                                  <<>>, NextId))
       ELSE /\ thr' = [thr EXCEPT ![i].pc = "calc"]
            /\ UNCHANGED <<db, views>>
    /\ UNCHANGED <<mat, ret>>

\* CommitToDB: db.commitLock.Lock
CommitDbLock(i) ==
    /\ thr[i].pc = "start" /\ thr[i].op = "CommitToDB"
    /\ \A j \in Threads : ~holdsDbCommitLock(j)
    /\ thr' = [thr EXCEPT ![i].pc = "lock"]
    /\ UNCHANGED <<db, views, mat, ret>>

\* commitToDB: t.commitLock.Lock
CommitLock(i) ==
    /\ thr[i].pc = "lock"
    /\ \A j \in Threads : ~holdsCommitLock(j) /\ ~holdsCommitRLock(j)
    /\ thr' = [thr EXCEPT ![i].pc = "calc"]
    /\ UNCHANGED <<db, views, mat, ret>>

\* calculateNodeIDs: the caller reaches calculateNodesOnce.Do
OnceDo(i) ==
    /\ thr[i].pc = "calc"
    /\ onceDo(views[1].calculateNodesOnce) # "wait"
    /\ IF onceDo(views[1].calculateNodesOnce) = "return"
       THEN /\ thr' = [thr EXCEPT ![i].pc = "after", ![i].err = NoErr]
            /\ UNCHANGED <<views, mat>>
       ELSE IF calcEntryErr(views[1]) # NoErr
       THEN /\ views' = [views EXCEPT ![1].calculateNodesOnce = "done"]
            /\ mat' = [mat EXCEPT !.runs = @ + 1, !.err = calcEntryErr(views[1])]
            /\ thr' = [thr EXCEPT ![i].pc = "after", ![i].err = calcEntryErr(views[1])]
       ELSE /\ views' = [views EXCEPT ![1].calculateNodesOnce = "running"]
            /\ mat' = [mat EXCEPT !.runs = @ + 1, !.pending = DOMAIN views[1].values]
            /\ thr' = [thr EXCEPT ![i].pc = "body"]
    /\ UNCHANGED <<db, ret>>

\* the body: one changed value is applied
BodyApply(i, key) ==
    /\ thr[i].pc = "body"
    /\ key \in mat.pending
    /\ LET applied(r) ==
                IF r.err # NoErr
                THEN /\ views' = [views EXCEPT ![1] = calcReturn(r.t)]
                     /\ mat' = [mat EXCEPT !.err = r.err, !.pending = {}]
                     /\ thr' = [thr EXCEPT ![i].pc = "after", ![i].err = r.err]
                ELSE /\ views' = [views EXCEPT ![1] = r.t]
                     /\ mat' = [mat EXCEPT !.pending = @ \ {key}]
                     /\ UNCHANGED thr
       IN  applied(applyValueChange(views, views[1], key))
    /\ UNCHANGED <<db, ret>>

\* the body: the IDs are computed under a permit, and the body returns
BodyIDs(i) ==
    /\ thr[i].pc = "body"
    /\ mat.pending = {}
    /\ db.sema >= 1
    /\ LET calculated(c) ==
                /\ views' = [views EXCEPT ![1] = calcReturn(c.t)]
                /\ mat' = [mat EXCEPT !.err = c.err]
                /\ db' = [db EXCEPT !.sema = c.permits]
                /\ thr' = [thr EXCEPT ![i].pc = "after", ![i].err = c.err]
       IN  calculated(calcIDs(views, views[1], db.sema))
    /\ UNCHANGED ret

\* GetMerkleRoot after calculateNodeIDs
GetMerkleRootReturn(i) ==
    /\ thr[i].pc = "after" /\ thr[i].op = "GetMerkleRoot"
    /\ thr' = returned(i, thr[i].err)
    /\ UNCHANGED <<db, views, mat, ret>>

\* GetProof after calculateNodeIDs
GetProofReturn(i, key) ==
    /\ thr[i].pc = "after" /\ thr[i].op = "GetProof"
    /\ thr' = IF thr[i].err # NoErr THEN returned(i, thr[i].err)
              ELSE returned(i, getProof(views, views[1], key).err)
    /\ UNCHANGED <<db, views, mat, ret>>

\* NewView after calculateNodeIDs
NewViewReturn(i, batch) ==
    /\ thr[i].pc = "after" /\ thr[i].op = "NewView"
    /\ IF thr[i].err # NoErr
       THEN /\ thr' = returned(i, thr[i].err)
            /\ UNCHANGED <<db, views>>
       ELSE /\ FreeIds # {}
            /\ LET built(o) ==
                        /\ views' = o.views
                        /\ db' = o.db
                        /\ thr' = returned(i, o.err)
               IN  built(newViewOver(views, db, 1, batch, NextId))
    /\ UNCHANGED <<mat, ret>>

\* commitToDB after calculateNodeIDs
CommitReturn(i, move) ==
    /\ thr[i].pc = "after" /\ thr[i].op = "CommitToDB"
    /\ IF thr[i].err # NoErr
       THEN /\ thr' = returned(i, thr[i].err)
            /\ UNCHANGED <<db, views>>
       ELSE LET committed(o) ==
                    /\ views' = o.views
                    /\ db' = o.db
                    /\ thr' = returned(i, o.err)
            IN  committed(commitCalculated(views, db, 1, move))
    /\ UNCHANGED <<mat, ret>>

\* view 2 is committed by its owner
SiblingCommit(order, move) ==
    /\ mat.phase = "once"
    /\ \A j \in Threads : ~holdsDbCommitLock(j)
    /\ order \in Orders(DOMAIN views[2].values)
    /\ ~calcBlocks(views, views[2], order, db.sema)
    /\ LET committed(o) ==
                /\ views' = o.views
                /\ db' = o.db
       IN  committed(CommitToDB(views, db, 2, order, move))
    /\ UNCHANGED <<mat, ret, thr>>

NextOnce ==
    \/ \E i \in Threads, op \in OnceOps : Call(i, op)
    \/ \E i \in Threads : NewViewCheck(i)
    \/ \E i \in Threads, batch \in Batches : NewViewRLock(i, batch)
    \/ \E i \in Threads : CommitDbLock(i)
    \/ \E i \in Threads : CommitLock(i)
    \/ \E i \in Threads : OnceDo(i)
    \/ \E i \in Threads, key \in Keys : BodyApply(i, key)
    \/ \E i \in Threads : BodyIDs(i)
    \/ \E i \in Threads : GetMerkleRootReturn(i)
    \/ \E i \in Threads, key \in ViewKeys : GetProofReturn(i, key)
    \/ \E i \in Threads, batch \in Batches : NewViewReturn(i, batch)
    \/ \E i \in Threads, move \in BOOLEAN : CommitReturn(i, move)
    \/ \E move \in BOOLEAN :
        \E order \in Orders(DOMAIN views[2].values) : SiblingCommit(order, move)

SpecOnce == InitOnce /\ [][NextOnce]_vars

(***************************************************************************)
(* CommitToDB step by step: the threads commit views over one database.    *)
(* [mat] holds the owner of the database's commitLock and of each view's   *)
(* commitLock, 0 when the lock is free.                                    *)
(***************************************************************************)
NoOwner == 0
CommitPcs == {"locked", "calc", "commit", "unlock", "unlockDb"}

\* a plausible slip: the locks are released by hand on the way out of a
\* commit that went well, and a commit that failed returns with them held
commitToDBReturnHeld(err) == IF err # NoErr THEN "returned" ELSE "unlock"

\* commitToDB returns: the deferred Unlock calls run whatever the error is
commitToDBReturn(err) == "unlock"

InitCommit ==
    /\ db \in {[newDB(m) EXCEPT !.childViews = <<1, 2>>] : m \in ViewMaps}
    /\ \E b1 \in OnceBatches, b2 \in Batches :
        views = [v \in ViewIds |->
                    CASE v = 1 -> newTrieView([w \in ViewIds |-> NoView], DB, b1).t
                      [] v = 2 -> newTrieView([w \in ViewIds |-> NoView], DB, b2).t
                      [] OTHER -> NoView]
    /\ mat = [phase |-> "commit", dbCommitLock |-> NoOwner,
              commitLock |-> [v \in ViewIds |-> NoOwner]]
    /\ ret = NoRet
    /\ thr = [i \in Threads |-> [pc |-> "idle", op |-> "none", err |-> NoErr,
                                 calls |-> 0, view |-> 1]]

\* a thread calls CommitToDB on the view [v]
CommitCall(i, v) ==
    /\ mat.phase = "commit"
    /\ thr[i].pc = "idle"
    /\ thr[i].calls < MaxCalls
    /\ views[v].exists
    /\ thr' = [thr EXCEPT ![i] = [pc |-> "start", op |-> "CommitToDB", err |-> NoErr,
                                  calls |-> @.calls + 1, view |-> v]]
    /\ UNCHANGED <<db, views, mat, ret>>

\* CommitToDB: t.db.commitLock.Lock()
DbCommitLockLock(i) ==
    /\ mat.phase = "commit"
    /\ thr[i].pc = "start"
    /\ mat.dbCommitLock = NoOwner
    /\ mat' = [mat EXCEPT !.dbCommitLock = i]
    /\ thr' = [thr EXCEPT ![i].pc = "locked"]
    /\ UNCHANGED <<db, views, ret>>

\* commitToDB: t.commitLock.Lock()
ViewCommitLockLock(i) ==
    /\ mat.phase = "commit"
    /\ thr[i].pc = "locked"
    /\ mat.commitLock[thr[i].view] = NoOwner
    /\ mat' = [mat EXCEPT !.commitLock[thr[i].view] = i]
    /\ thr' = [thr EXCEPT ![i].pc = "calc"]
    /\ UNCHANGED <<db, views, ret>>

\* commitToDB: calculateNodeIDs
CommitCalculate(i, order) ==
    /\ mat.phase = "commit"
    /\ thr[i].pc = "calc"
    /\ order \in Orders(DOMAIN views[thr[i].view].values)
    /\ ~calcBlocks(views, views[thr[i].view], order, db.sema)
    /\ LET calculated(c) ==
            /\ views' = [views EXCEPT ![thr[i].view] = c.t]
            /\ db' = [db EXCEPT !.sema = c.permits]
            /\ thr' = [thr EXCEPT ![i].err = c.err,
                                  ![i].pc = IF c.err # NoErr
                                            THEN commitToDBReturn(c.err)
                                            ELSE "commit"]
       IN  calculated(calculateNodeIDs(views, views[thr[i].view], order, db.sema))
    /\ UNCHANGED <<mat, ret>>

\* commitToDB: db.commitChanges, then committed = true
CommitChanges(i, move) ==
    /\ mat.phase = "commit"
    /\ thr[i].pc = "commit"
    /\ LET committed(o) ==
            /\ views' = o.views
            /\ db' = o.db
            /\ thr' = [thr EXCEPT ![i].err = o.err, ![i].pc = commitToDBReturn(o.err)]
       IN  committed(commitCalculated(views, db, thr[i].view, move))
    /\ UNCHANGED <<mat, ret>>

\* commitToDB returns: the deferred t.commitLock.Unlock()
ViewCommitLockUnlock(i) ==
    /\ mat.phase = "commit"
    /\ thr[i].pc = "unlock"
    /\ mat' = [mat EXCEPT !.commitLock[thr[i].view] = NoOwner]
    /\ thr' = [thr EXCEPT ![i].pc = "unlockDb"]
    /\ UNCHANGED <<db, views, ret>>

\* CommitToDB returns: the deferred t.db.commitLock.Unlock()
DbCommitLockUnlock(i) ==
    /\ mat.phase = "commit"
    /\ thr[i].pc = "unlockDb"
    /\ mat' = [mat EXCEPT !.dbCommitLock = NoOwner]
    /\ thr' = [thr EXCEPT ![i].pc = "returned"]
    /\ ret' = [op |-> "CommitToDB", err |-> thr[i].err, view |-> thr[i].view]
    /\ UNCHANGED <<db, views>>

NextCommit ==
    \/ \E i \in Threads, v \in 1..2 : CommitCall(i, v)
    \/ \E i \in Threads : DbCommitLockLock(i)
    \/ \E i \in Threads : ViewCommitLockLock(i)
    \/ \E i \in Threads :
        \E order \in Orders(DOMAIN views[thr[i].view].values) : CommitCalculate(i, order)
    \/ \E i \in Threads, move \in BOOLEAN : CommitChanges(i, move)
    \/ \E i \in Threads : ViewCommitLockUnlock(i)
    \/ \E i \in Threads : DbCommitLockUnlock(i)

SpecCommit == InitCommit /\ [][NextCommit]_vars

(***************************************************************************)
(* The materialisations of several views that share the semaphore of one   *)
(* database: each thread calls GetMerkleRoot on a view and goes through    *)
(* calculateNodeIDs step by step, while a third view may be committed.     *)
(* The views the threads call hold no changed value: the loop over         *)
(* changes.values is empty, and the IDs are computed from the root.        *)
(***************************************************************************)
InitSema ==
    /\ db \in {[newDB(m) EXCEPT !.childViews = <<1, 2, 3>>] : m \in ViewMaps}
    /\ \E b3 \in Batches :
        views = [v \in ViewIds |->
                    CASE v \in 1..2 -> newTrieView([w \in ViewIds |-> NoView], DB, <<>>).t
                      [] v = 3 -> newTrieView([w \in ViewIds |-> NoView], DB, b3).t
                      [] OTHER -> NoView]
    /\ mat = [phase |-> "sema"]
    /\ ret = NoRet
    /\ thr = [i \in Threads |-> [pc |-> "idle", op |-> "none", err |-> NoErr,
                                 calls |-> 0, view |-> 1]]

\* a thread calls GetMerkleRoot on the view [v]
SemaCall(i, v) ==
    /\ mat.phase = "sema"
    /\ thr[i].pc = "idle"
    /\ thr[i].calls < MaxCalls
    /\ views[v].exists
    /\ thr' = [thr EXCEPT ![i] = [pc |-> "calc", op |-> "GetMerkleRoot", err |-> NoErr,
                                  calls |-> @.calls + 1, view |-> v]]
    /\ UNCHANGED <<db, views, mat, ret>>

\* calculateNodeIDs: calculateNodesOnce.Do and the check at the entry of the
\* body
SemaOnceDo(i) ==
    /\ mat.phase = "sema"
    /\ thr[i].pc = "calc"
    /\ onceDo(views[thr[i].view].calculateNodesOnce) # "wait"
    /\ IF onceDo(views[thr[i].view].calculateNodesOnce) = "return"
       THEN /\ thr' = [thr EXCEPT ![i].pc = "returned", ![i].err = NoErr]
            /\ UNCHANGED views
       ELSE IF calcEntryErr(views[thr[i].view]) # NoErr
       THEN /\ views' = [views EXCEPT ![thr[i].view].calculateNodesOnce = "done"]
            /\ thr' = [thr EXCEPT ![i].pc = "returned",
                                  ![i].err = calcEntryErr(views[thr[i].view])]
       ELSE /\ views' = [views EXCEPT ![thr[i].view].calculateNodesOnce = "running"]
            /\ thr' = [thr EXCEPT ![i].pc = "body"]
    /\ UNCHANGED <<db, mat, ret>>

\* the body: the changed values are applied
SemaApply(i, order) ==
    /\ mat.phase = "sema"
    /\ thr[i].pc = "body"
    /\ order \in Orders(DOMAIN views[thr[i].view].values)
    /\ LET applied(r) ==
            IF r.err # NoErr
            THEN /\ views' = [views EXCEPT ![thr[i].view] = calcReturn(r.t)]
                 /\ thr' = [thr EXCEPT ![i].pc = "returned", ![i].err = r.err]
            ELSE /\ views' = [views EXCEPT ![thr[i].view] = r.t]
                 /\ thr' = [thr EXCEPT ![i].pc = "acquire"]
       IN  applied(applyInOrder(views, views[thr[i].view], order, 1))
    /\ UNCHANGED <<db, mat, ret>>

\* the body: calculateNodeIDsSema.Acquire waits for a permit
SemaAcquire(i) ==
    /\ mat.phase = "sema"
    /\ thr[i].pc = "acquire"
    /\ db.sema >= 1
    /\ db' = [db EXCEPT !.sema = @ - 1]
    /\ thr' = [thr EXCEPT ![i].pc = "ids"]
    /\ UNCHANGED <<views, mat, ret>>

\* the body under its permit: getValue of the root, the helper, Release, the
\* last validity check; then the body returns
SemaIDs(i) ==
    /\ mat.phase = "sema"
    /\ thr[i].pc = "ids"
    /\ LET calculated(c) ==
            /\ views' = [views EXCEPT ![thr[i].view] = calcReturn(c.t)]
            /\ db' = [db EXCEPT !.sema = c.permits]
            /\ thr' = [thr EXCEPT ![i].pc = "returned", ![i].err = c.err]
            /\ ret' = [op |-> "GetMerkleRoot", err |-> c.err, view |-> thr[i].view]
       IN  calculated(calcIDs(views, views[thr[i].view], db.sema + 1))
    /\ UNCHANGED mat

\* view 3 is committed by its owner
SemaSiblingCommit(order, move) ==
    /\ mat.phase = "sema"
    /\ ~views[3].committed
    /\ order \in Orders(DOMAIN views[3].values)
    /\ ~calcBlocks(views, views[3], order, db.sema)
    /\ LET committed(o) ==
            /\ views' = o.views
            /\ db' = o.db
       IN  committed(CommitToDB(views, db, 3, order, move))
    /\ UNCHANGED <<mat, ret, thr>>

\* the steps of the thread [i]
SemaThread(i) ==
    \/ \E v \in 1..2 : SemaCall(i, v)
    \/ SemaOnceDo(i)
    \/ \E order \in Orders(DOMAIN views[thr[i].view].values) : SemaApply(i, order)
    \/ SemaAcquire(i)
    \/ SemaIDs(i)

NextSema ==
    \/ \E i \in Threads : SemaThread(i)
    \/ \E move \in BOOLEAN :
        \E order \in Orders(DOMAIN views[3].values) : SemaSiblingCommit(order, move)

\* every thread that can take a step takes one in the end
SpecSema == InitSema /\ [][NextSema]_vars /\ \A i \in Threads : WF_vars(SemaThread(i))

(***************************************************************************)
(* The state a verifier gives to a statelessView: its parentTrie and the   *)
(* temporary and permanent maps of its verifierIntercepter, kept in        *)
(* mat.sv.  A map holds Nothing for a key known to be absent.              *)
(***************************************************************************)
MaxStatelessCalls == 3
NilTrie == "nil"
StateKeys == {<<0>>, <<1>>}
StateValueMaps == UNION {[S -> {"v1", Nothing}] : S \in SUBSET StateKeys}
StateNodeMaps == UNION {[S -> {"n1", Nothing}] : S \in SUBSET {<<0>>}}

statelessSetBase(sv) == [sv EXCEPT !.parentTrie = NilTrie]

statelessSetTemporaryState(sv, values, nodes) ==
    [sv EXCEPT !.tempValues = values, !.tempNodes = nodes]

\* the loop "for p, value := range values { perm[p] = value }"
RECURSIVE putAll(_, _, _)
putAll(perm, supplied, todo) ==
    IF todo = {} THEN perm
    ELSE LET p == CHOOSE k \in todo : TRUE
         IN  putAll(Put(perm, p, supplied[p]), supplied, todo \ {p})

\* a plausible slip: the permanent maps are replaced as the temporary ones are
statelessAddPermanentStateReplaced(sv, values, nodes) ==
    [sv EXCEPT !.permValues = values, !.permNodes = nodes]

statelessAddPermanentState(sv, values, nodes) ==
    [sv EXCEPT !.permValues = putAll(@, values, DOMAIN values),
               !.permNodes = putAll(@, nodes, DOMAIN nodes)]

\* NewStatelessView: a view over a parent, its intercepter with fresh
\* permanent maps and no temporary ones
InitStateless ==
    /\ db = newDB(EmptyMap)
    /\ views = [v \in ViewIds |-> NoView]
    /\ mat = [phase |-> "stateless", calls |-> 0,
              sv |-> [parentTrie |-> "parent",
                      tempValues |-> EmptyMap, tempNodes |-> EmptyMap,
                      permValues |-> EmptyMap, permNodes |-> EmptyMap]]
    /\ ret = NoRet
    /\ thr = NoThr

SetBaseCall ==
    /\ mat.phase = "stateless"
    /\ mat.calls < MaxStatelessCalls
    /\ mat' = [mat EXCEPT !.calls = @ + 1, !.sv = statelessSetBase(@)]
    /\ ret' = [op |-> "SetBase", err |-> NoErr]
    /\ UNCHANGED <<db, views, thr>>

SetTemporaryStateCall(values, nodes) ==
    /\ mat.phase = "stateless"
    /\ mat.calls < MaxStatelessCalls
    /\ mat' = [mat EXCEPT !.calls = @ + 1,
                          !.sv = statelessSetTemporaryState(@, values, nodes)]
    /\ ret' = [op |-> "SetTemporaryState", err |-> NoErr,
               values |-> values, nodes |-> nodes]
    /\ UNCHANGED <<db, views, thr>>

AddPermanentStateCall(values, nodes) ==
    /\ mat.phase = "stateless"
    /\ mat.calls < MaxStatelessCalls
    /\ mat' = [mat EXCEPT !.calls = @ + 1,
                          !.sv = statelessAddPermanentState(@, values, nodes)]
    /\ ret' = [op |-> "AddPermanentState", err |-> NoErr,
               values |-> values, nodes |-> nodes]
    /\ UNCHANGED <<db, views, thr>>

NextStateless ==
    \/ SetBaseCall
    \/ \E values \in StateValueMaps, nodes \in StateNodeMaps :
        SetTemporaryStateCall(values, nodes)
    \/ \E values \in StateValueMaps, nodes \in StateNodeMaps :
        AddPermanentStateCall(values, nodes)

SpecStateless == InitStateless /\ [][NextStateless]_vars

(***************************************************************************)
(* The structural algorithms of statelessView against those of trieView.   *)
(* [sn] is the trie of a statelessView as it resolves it: the node at each *)
(* key, from changes.nodes first and from the supplied state otherwise.    *)
(* The same batch is applied to a trieView over the database and to a      *)
(* statelessView that starts from the nodes of the database, each in its   *)
(* own order, and then both compute their root ID.                         *)
(***************************************************************************)
\* a child entry of a statelessView node: there is no hasValue
statelessChild(ck, id) == [compressedKey |-> ck, id |-> id]

\* Node.addChildWithoutNode
addChildWithoutNode(n, index, ck, id) ==
    [n EXCEPT !.children = Put(n.children, index, statelessChild(ck, id))]

\* newNode(parent, key): the new node is added to [parent] with an empty ID
addNewChild(sn, parentKey, key) ==
    Put(sn, parentKey,
        addChildWithoutNode(sn[parentKey], Token(key, Len(parentKey)),
                            Skip(key, Len(parentKey) + 1), EmptyID))

\* the supplied nodes as a statelessView holds them
statelessNodes(nodes) ==
    [k \in DOMAIN nodes |->
        [value |-> nodes[k].value,
         children |-> [i \in DOMAIN nodes[k].children |->
                        statelessChild(nodes[k].children[i].compressedKey,
                                       nodes[k].children[i].id)]]]

RECURSIVE statelessPathFrom(_, _, _, _)
statelessPathFrom(sn, key, currentKey, nodes) ==
    IF Len(currentKey) >= Len(key)
    THEN [err |-> NoErr, path |-> nodes]
    ELSE LET index == Token(key, Len(currentKey))
             current == sn[currentKey]
         IN  IF \/ index \notin DOMAIN current.children
                \/ ~iteratedHasPrefix(key, current.children[index].compressedKey,
                                      Len(currentKey) + 1)
             THEN [err |-> NoErr, path |-> nodes]
             ELSE LET nextKey == Take(key, Len(currentKey) + 1
                                        + Len(current.children[index].compressedKey))
                  IN  IF nextKey \notin DOMAIN sn
                      THEN [err |-> ErrNotFound, path |-> <<>>]
                      ELSE statelessPathFrom(sn, key, nextKey, Append(nodes, nextKey))

statelessGetPathTo(sn, key) == statelessPathFrom(sn, key, emptyKey, <<emptyKey>>)

\* insertIntoTrie, the branch node case
statelessInsertBranch(sn, closestKey, key, value, existingChildEntry) ==
    LET branchKey ==
            Take(key, Len(closestKey) + 1
                        + getLengthOfCommonPrefix(existingChildEntry.compressedKey,
                                                  key, Len(closestKey) + 1))
        existingChildKey ==
            Take(key, Len(closestKey) + 1) \o existingChildEntry.compressedKey
        withBranch == Put(addNewChild(sn, closestKey, branchKey), branchKey, newNode)
        withValue ==
            IF Len(key) = Len(branchKey)
            THEN Put(withBranch, branchKey, setValue(newNode, value))
            ELSE Put(addNewChild(withBranch, branchKey, key), key,
                     setValue(newNode, value))
    IN  IF Len(existingChildKey) <= Len(branchKey)
        THEN [sn |-> withValue, err |-> ErrGetPathToFailure]
        ELSE [sn |-> Put(withValue, branchKey,
                         addChildWithoutNode(withValue[branchKey],
                             Token(existingChildKey, Len(branchKey)),
                             Skip(existingChildKey, Len(branchKey) + 1),
                             existingChildEntry.id)),
              err |-> NoErr]

statelessInsertAtClosest(sn, closestKey, key, value) ==
    IF closestKey = key
    THEN [sn |-> Put(sn, key, setValue(sn[key], value)), err |-> NoErr]
    ELSE IF Token(key, Len(closestKey)) \notin DOMAIN sn[closestKey].children
    THEN [sn |-> Put(addNewChild(sn, closestKey, key), key, setValue(newNode, value)),
          err |-> NoErr]
    ELSE statelessInsertBranch(sn, closestKey, key, value,
            sn[closestKey].children[Token(key, Len(closestKey))])

statelessInsertIntoTrie(sn, key, value) ==
    LET walked(p) ==
            IF p.err # NoErr THEN [sn |-> sn, err |-> p.err]
            ELSE statelessInsertAtClosest(sn, p.path[Len(p.path)], key, value)
    IN  walked(statelessGetPathTo(sn, key))

\* compressNodePath, the loop: value-less nodes with one child are deleted,
\* down to the first node that is not one; [id] is the ID of the entry that
\* led to [nodeKey]
RECURSIVE statelessCompressFrom(_, _, _, _)
statelessCompressFrom(sn, parentKey, nodeKey, id) ==
    IF Cardinality(DOMAIN sn[nodeKey].children) = 1 /\ ~hasValue(sn[nodeKey])
    THEN LET index == CHOOSE i \in DOMAIN sn[nodeKey].children : TRUE
             entry == sn[nodeKey].children[index]
             next == Extend(nodeKey, index, entry.compressedKey)
         IN  IF next \notin DOMAIN sn
             THEN [sn |-> Del(sn, nodeKey), err |-> ErrNotFound]
             ELSE statelessCompressFrom(Del(sn, nodeKey), parentKey, next, entry.id)
    ELSE [sn |-> Put(sn, parentKey,
                     addChildWithoutNode(sn[parentKey],
                         Token(nodeKey, Len(parentKey)),
                         Skip(nodeKey, Len(parentKey) + 1), id)),
          err |-> NoErr]

statelessCompressNodePath(sn, parentKey, nodeKey) ==
    IF Cardinality(DOMAIN sn[nodeKey].children) # 1 \/ hasValue(sn[nodeKey])
    THEN [sn |-> sn, err |-> NoErr]
    ELSE statelessCompressFrom(sn, parentKey, nodeKey,
            sn[parentKey].children[Token(nodeKey, Len(parentKey))].id)

\* deleteEmptyNodes: [i] is the place in [nodePath] of the node looked at
RECURSIVE statelessDeleteEmptyNodes(_, _, _)
statelessDeleteEmptyNodes(sn, nodePath, i) ==
    IF i >= 2 /\ DOMAIN sn[nodePath[i]].children = {} /\ ~hasValue(sn[nodePath[i]])
    THEN statelessDeleteEmptyNodes(
            Put(Del(sn, nodePath[i]), nodePath[i - 1],
                deleteChildEntry(sn[nodePath[i - 1]],
                                 Token(nodePath[i], Len(nodePath[i - 1])))),
            nodePath, i - 1)
    ELSE IF i < 2
    THEN [sn |-> sn, err |-> NoErr]
    ELSE statelessCompressNodePath(sn, nodePath[i - 1], nodePath[i])

statelessRemoveVisited(sn, nodePath, key) ==
    LET nodeToDelete == nodePath[Len(nodePath)]
        cleared == Put(sn, nodeToDelete, setValue(sn[nodeToDelete], Nothing))
    IN  IF nodeToDelete # key \/ ~hasValue(sn[nodeToDelete])
        THEN [sn |-> sn, err |-> NoErr]
        ELSE IF DOMAIN sn[nodeToDelete].children = {}
        THEN statelessDeleteEmptyNodes(cleared, nodePath, Len(nodePath))
        ELSE IF Len(nodePath) = 1
        THEN [sn |-> cleared, err |-> NoErr]
        ELSE statelessCompressNodePath(cleared, nodePath[Len(nodePath) - 1],
                                       nodeToDelete)

statelessRemoveFromTrie(sn, key) ==
    LET walked(p) ==
            IF p.err # NoErr THEN [sn |-> sn, err |-> p.err]
            ELSE statelessRemoveVisited(sn, p.path, key)
    IN  walked(statelessGetPathTo(sn, key))

\* one iteration of the loop of applyChangedValuesToTrie
statelessApplyValueChange(sn, key, change) ==
    IF change = Nothing
    THEN statelessRemoveFromTrie(sn, key)
    ELSE statelessInsertIntoTrie(sn, key, change)

\* the ID of the node at [key] once calculateNodeIDs has brought every entry
\* up to date: the hash of trieView over the same key, children and value
RECURSIVE statelessID(_, _)
statelessID(sn, key) ==
    calculateID(key,
        [value |-> sn[key].value,
         children |->
            [i \in DOMAIN sn[key].children |->
                LET childKey == Extend(key, i, sn[key].children[i].compressedKey)
                IN  IF childKey \notin DOMAIN sn
                    THEN newChild(sn[key].children[i].compressedKey, EmptyID, FALSE)
                    ELSE newChild(sn[key].children[i].compressedKey,
                                  statelessID(sn, childKey),
                                  hasValue(sn[childKey]))]])

\* what the claim compares: per node its key, its value and where its child
\* entries lead
structure(key, n) ==
    [key |-> key,
     value |-> IF n = NilNode THEN Nothing ELSE n.value,
     children |-> IF n = NilNode THEN EmptyMap
                  ELSE [i \in DOMAIN n.children |-> n.children[i].compressedKey]]

RECURSIVE statelessTrie(_, _)
statelessTrie(sn, key) ==
    IF key \notin DOMAIN sn
    THEN {structure(key, NilNode)}
    ELSE {structure(key, sn[key])} \cup
         UNION {statelessTrie(sn, Extend(key, i, sn[key].children[i].compressedKey))
                    : i \in DOMAIN sn[key].children}

trieStructure(vs, t) == {structure(e.key, e.node) : e \in Trie(vs, t)}

MaxRefineKeys == 4

RefineMaps ==
    {[k \in S |-> "v1"] :
        S \in {S \in SUBSET Keys : Cardinality(S) <= MaxRefineKeys}}

RefineBatches ==
    {<<BatchOp(k, v)>> : k \in Keys, v \in {"v2", Nothing}}
    \cup {b \in {<<BatchOp(k1, v1), BatchOp(k2, v2)>> :
                    k1 \in Keys, k2 \in Keys,
                    v1 \in {"v2", Nothing}, v2 \in {"v2", Nothing}} :
                Compare(b[1].key, b[2].key) < 0}

InitRefine ==
    /\ db \in {[newDB(m) EXCEPT !.childViews = <<1>>] : m \in RefineMaps}
    /\ \E b \in RefineBatches :
        views = [v \in ViewIds |->
                    IF v = 1
                    THEN newTrieView([w \in ViewIds |-> NoView], DB, b).t
                    ELSE NoView]
    /\ mat = [phase |-> "refine",
              pending |-> DOMAIN views[1].values,
              err |-> NoErr,
              sn |-> statelessNodes(db.nodes),
              unappliedValueChanges |->
                    [k \in DOMAIN views[1].values |-> views[1].values[k].after],
              statelessErr |-> NoErr,
              statelessRootID |-> EmptyID]
    /\ ret = NoRet
    /\ thr = NoThr

\* trieView.calculateNodeIDs: one iteration of the loop over changes.values
RefineTrieApply(key) ==
    /\ mat.phase = "refine"
    /\ mat.err = NoErr
    /\ key \in mat.pending
    /\ LET applied(r) ==
                /\ views' = [views EXCEPT ![1] = r.t]
                /\ mat' = [mat EXCEPT !.pending = @ \ {key}, !.err = r.err]
       IN  applied(applyValueChange(views, views[1], key))
    /\ UNCHANGED <<db, ret, thr>>

\* statelessView.applyChangedValuesToTrie: one iteration of its loop
RefineStatelessApply(key) ==
    /\ mat.phase = "refine"
    /\ mat.statelessErr = NoErr
    /\ key \in DOMAIN mat.unappliedValueChanges
    /\ LET applied(r) ==
                mat' = [mat EXCEPT !.sn = r.sn,
                                   !.statelessErr = r.err,
                                   !.unappliedValueChanges = Del(@, key)]
       IN  applied(statelessApplyValueChange(mat.sn, key,
                                             mat.unappliedValueChanges[key]))
    /\ UNCHANGED <<db, views, ret, thr>>

\* both loops are over: each view computes its IDs
RefineIDs ==
    /\ mat.phase = "refine"
    /\ mat.err = NoErr
    /\ mat.statelessErr = NoErr
    /\ mat.pending = {}
    /\ DOMAIN mat.unappliedValueChanges = {}
    /\ LET calculated(c) ==
                /\ views' = [views EXCEPT ![1] = calcReturn(c.t)]
                /\ mat' = [mat EXCEPT !.phase = "refined", !.err = c.err,
                                      !.statelessRootID =
                                            statelessID(mat.sn, emptyKey)]
                /\ db' = [db EXCEPT !.sema = c.permits]
       IN  calculated(calcIDs(views, views[1], db.sema))
    /\ UNCHANGED <<ret, thr>>

NextRefine ==
    \/ \E key \in Keys : RefineTrieApply(key)
    \/ \E key \in Keys : RefineStatelessApply(key)
    \/ RefineIDs

SpecRefine == InitRefine /\ [][NextRefine]_vars

(***************************************************************************)
(* getValue against invalidate.  View 1 is a view over the database and    *)
(* view 2 a view over view 1; threads read a key of a view while one       *)
(* thread invalidates a view.  validityTrackingLock is held by invalidate  *)
(* from its entry to its return, and by isInvalid and getParentTrie for    *)
(* the length of one step.                                                 *)
(***************************************************************************)
ReadKeys == {<<0>>, <<0, 0>>}
NoRes == [err |-> NoErr, val |-> Nothing]
ReadThr ==
    [i \in Threads |-> [pc |-> "idle", key |-> emptyKey, stack |-> <<>>,
                        res |-> NoRes, delegated |-> FALSE]]
ReadMat == [phase |-> "read", inv |-> <<>>, done |-> FALSE]

\* invalidate holds the validityTrackingLock of the views it has entered
holdsValidityLock(v) == \E f \in DOMAIN mat.inv : mat.inv[f].view = v

\* the view whose getValue a thread is in
top(i) == thr[i].stack[Len(thr[i].stack)]

\* a getValue returns [r]: to its caller, a getValue one view down that
\* waits for its parent, or out of the call
finish(i, r) ==
    [thr EXCEPT ![i].res = r,
                ![i].stack = SubSeq(@, 1, Len(@) - 1),
                ![i].pc = IF Len(thr[i].stack) = 1 THEN "returned" ELSE "recheck"]

\* view 1 built over the database from [b1], and view 2 built by its NewView
\* from [b2]
ViewOverView(d, b1, b2) ==
    LET only(v1) == [w \in ViewIds |-> IF w = 1 THEN v1 ELSE NoView]
        over(v1) ==
            {newViewOver(only(calculateNodeIDs(only(v1), v1, order, d.sema).t),
                         d, 1, b2, 2).views :
                order \in Orders(DOMAIN v1.values)}
    IN  over(newTrieView([w \in ViewIds |-> NoView], DB, b1).t)

InitRead ==
    /\ \E m \in ViewMaps :
        /\ db = [newDB(m) EXCEPT !.childViews = <<1>>]
        /\ views \in UNION {ViewOverView([newDB(m) EXCEPT !.childViews = <<1>>],
                                          b1, b2) :
                                b1 \in Batches, b2 \in Batches}
    /\ mat = ReadMat
    /\ ret = NoRet
    /\ thr = ReadThr

\* a thread calls getValue(key) on view [v]
ReadCall(i, v, key) ==
    /\ mat.phase = "read"
    /\ thr[i].pc = "idle"
    /\ thr' = [thr EXCEPT ![i].pc = "entry", ![i].key = key, ![i].stack = <<v>>]
    /\ UNCHANGED <<db, views, mat, ret>>

\* getValue: the validity check at entry and the look into changes.values
ReadEntry(i) ==
    /\ thr[i].pc = "entry"
    /\ ~holdsValidityLock(top(i))
    /\ thr' = IF isInvalid(views[top(i)])
              THEN finish(i, [err |-> ErrInvalid, val |-> Nothing])
              ELSE IF thr[i].key \in DOMAIN views[top(i)].values
              THEN finish(i, [err |-> NoErr,
                              val |-> views[top(i)].values[thr[i].key].after])
              ELSE [thr EXCEPT ![i].pc = "parent"]
    /\ UNCHANGED <<db, views, mat, ret>>

\* getValue: getParentTrie, and the call of the parent's getValue; the
\* database answers in one step
ReadParent(i) ==
    /\ thr[i].pc = "parent"
    /\ ~holdsValidityLock(top(i))
    /\ thr' = IF getParentTrie(views[top(i)]) = DB
              THEN [thr EXCEPT ![i].pc = "recheck",
                               ![i].res = dbGetValue(thr[i].key),
                               ![i].delegated = @ \/ Len(thr[i].stack) = 1]
              ELSE [thr EXCEPT ![i].pc = "entry",
                               ![i].stack = Append(@, getParentTrie(views[top(i)])),
                               ![i].delegated = @ \/ Len(thr[i].stack) = 1]
    /\ UNCHANGED <<db, views, mat, ret>>

\* getValue: the parent has answered; isInvalid is asked only for a value
ReadRecheck(i) ==
    /\ thr[i].pc = "recheck"
    /\ thr[i].res.err = NoErr => ~holdsValidityLock(top(i))
    /\ thr' = finish(i, getValueFromParent(views[top(i)], thr[i].res))
    /\ UNCHANGED <<db, views, mat, ret>>

\* invalidate() is called on view [v]: the lock is taken and the flag set
InvalidateCall(v) ==
    /\ mat.phase = "read"
    /\ mat.inv = <<>> /\ ~mat.done
    /\ views' = [views EXCEPT ![v].invalidated = TRUE]
    /\ mat' = [mat EXCEPT !.inv = <<[view |-> v, next |-> 1]>>]
    /\ UNCHANGED <<db, ret, thr>>

\* invalidate: the loop over childViews calls invalidate() on the next child
InvalidateChild ==
    /\ mat.phase = "read"
    /\ mat.inv # <<>>
    /\ LET f == mat.inv[Len(mat.inv)]
       IN  /\ f.next <= Len(views[f.view].childViews)
           /\ views' = [views EXCEPT
                            ![views[f.view].childViews[f.next]].invalidated = TRUE]
           /\ mat' = [mat EXCEPT !.inv =
                        Append([@ EXCEPT ![Len(@)].next = f.next + 1],
                               [view |-> views[f.view].childViews[f.next],
                                next |-> 1])]
    /\ UNCHANGED <<db, ret, thr>>

\* invalidate: the children are forgotten and the lock is released
InvalidateReturn ==
    /\ mat.phase = "read"
    /\ mat.inv # <<>>
    /\ LET f == mat.inv[Len(mat.inv)]
       IN  /\ f.next > Len(views[f.view].childViews)
           /\ views' = [views EXCEPT ![f.view].childViews = <<>>]
           /\ mat' = [mat EXCEPT !.inv = SubSeq(@, 1, Len(@) - 1),
                                 !.done = Len(mat.inv) = 1]
    /\ UNCHANGED <<db, ret, thr>>

NextRead ==
    \/ \E i \in Threads, v \in {1, 2}, key \in ReadKeys : ReadCall(i, v, key)
    \/ \E i \in Threads : ReadEntry(i)
    \/ \E i \in Threads : ReadParent(i)
    \/ \E i \in Threads : ReadRecheck(i)
    \/ \E v \in {1, 2} : InvalidateCall(v)
    \/ InvalidateChild
    \/ InvalidateReturn

SpecRead == InitRead /\ [][NextRead]_vars

(***************************************************************************)
(* NewView against invalidate.  Threads call NewView on view 1, a view     *)
(* over the database, in its steps, while invalidate() runs on view 1 in   *)
(* the steps above; view 1 may be committed in between.  Thread i builds   *)
(* the view i + 1.                                                         *)
(***************************************************************************)
TrackThr ==
    [i \in Threads |-> [pc |-> "idle", batch |-> <<>>, err |-> NoErr,
                        child |-> DB, appended |-> FALSE]]

\* the threads that hold the commitLock of view 1 for reading
holdsCommitRLockOfParent == {i \in Threads : thr[i].pc \in {"calc", "lock"}}

\* a plausible slip: the child is tracked without a second look at the flag
newViewTrackUnchecked(invalidated) == NoErr

\* NewView, with validityTrackingLock held: an invalidated parent tracks nothing
newViewTrack(invalidated) == IF invalidated THEN ErrInvalid ELSE NoErr

InitTrack ==
    /\ \E m \in ViewMaps :
        db = [newDB(m) EXCEPT !.childViews = <<1>>]
    /\ \E b1 \in Batches :
        views = [v \in ViewIds |->
                    IF v = 1
                    THEN newTrieView([w \in ViewIds |-> NoView], DB, b1).t
                    ELSE NoView]
    /\ mat = ReadMat
    /\ ret = NoRet
    /\ thr = TrackThr

\* a thread calls NewView(batch) on view 1
TrackCall(i, batch) ==
    /\ mat.phase = "read"
    /\ thr[i].pc = "idle"
    /\ thr' = [thr EXCEPT ![i].pc = "check", ![i].batch = batch]
    /\ UNCHANGED <<db, views, mat, ret>>

\* NewView: isInvalid at entry
TrackCheck(i) ==
    /\ thr[i].pc = "check"
    /\ ~holdsValidityLock(1)
    /\ thr' = IF isInvalid(views[1])
              THEN [thr EXCEPT ![i].pc = "returned", ![i].err = ErrInvalid]
              ELSE [thr EXCEPT ![i].pc = "rlock"]
    /\ UNCHANGED <<db, views, mat, ret>>

\* NewView: commitLock.RLock, and a committed view hands the call to its
\* parent trie, here the database
TrackRLock(i) ==
    /\ thr[i].pc = "rlock"
    /\ IF views[1].committed
       THEN LET handed(o) ==
                    /\ views' = o.views
                    /\ db' = o.db
                    /\ thr' = [thr EXCEPT ![i].pc = "returned", ![i].err = o.err,
                                          ![i].child = i + 1]
            IN  handed(dbNewView(views, db, thr[i].batch, i + 1))
       ELSE /\ thr' = [thr EXCEPT ![i].pc = "calc"]
            /\ UNCHANGED <<db, views>>
    /\ UNCHANGED <<mat, ret>>

\* NewView: calculateNodeIDs and newTrieView; both ask the view whether it
\* is invalid
TrackCalc(i, order) ==
    /\ thr[i].pc = "calc"
    /\ ~holdsValidityLock(1)
    /\ order \in Orders(DOMAIN views[1].values)
    /\ ~calcBlocks(views, views[1], order, db.sema)
    /\ LET built(vs1, nv) ==
                IF nv.err # NoErr
                THEN /\ views' = vs1
                     /\ thr' = [thr EXCEPT ![i].pc = "returned", ![i].err = nv.err]
                ELSE /\ views' = [vs1 EXCEPT ![i + 1] = nv.t]
                     /\ thr' = [thr EXCEPT ![i].pc = "lock", ![i].child = i + 1]
           calculated(vs1) == built(vs1, newTrieView(vs1, 1, thr[i].batch))
           afterCalc(c) ==
                /\ db' = [db EXCEPT !.sema = c.permits]
                /\ IF c.err # NoErr
                   THEN /\ views' = [views EXCEPT ![1] = c.t]
                        /\ thr' = [thr EXCEPT ![i].pc = "returned", ![i].err = c.err]
                   ELSE calculated([views EXCEPT ![1] = c.t])
       IN  afterCalc(calculateNodeIDs(views, views[1], order, db.sema))
    /\ UNCHANGED <<mat, ret>>

\* NewView: validityTrackingLock.Lock, the second look at the flag, the
\* append to childViews, and the return
TrackAppend(i) ==
    /\ thr[i].pc = "lock"
    /\ ~holdsValidityLock(1)
    /\ IF newViewTrack(views[1].invalidated) # NoErr
       THEN /\ views' = [views EXCEPT ![thr[i].child] = NoView]
            /\ thr' = [thr EXCEPT ![i].pc = "returned", ![i].err = ErrInvalid,
                                  ![i].child = DB]
       ELSE /\ views' = [views EXCEPT ![1].childViews = Append(@, thr[i].child)]
            /\ thr' = [thr EXCEPT ![i].pc = "returned", ![i].appended = TRUE]
    /\ UNCHANGED <<db, mat, ret>>

\* CommitToDB of view 1 by its owner; it needs the commitLock of the view
TrackCommit(order, move) ==
    /\ mat.phase = "read"
    /\ mat.inv = <<>>
    /\ holdsCommitRLockOfParent = {}
    /\ ~views[1].committed
    /\ ~views[1].invalidated
    /\ order \in Orders(DOMAIN views[1].values)
    /\ ~calcBlocks(views, views[1], order, db.sema)
    /\ LET committed(o) ==
            /\ views' = o.views
            /\ db' = o.db
       IN  committed(CommitToDB(views, db, 1, order, move))
    /\ UNCHANGED <<mat, ret, thr>>

NextTrack ==
    \/ \E i \in Threads, batch \in Batches : TrackCall(i, batch)
    \/ \E i \in Threads : TrackCheck(i)
    \/ \E i \in Threads : TrackRLock(i)
    \/ \E i \in Threads : \E order \in Orders(DOMAIN views[1].values) :
            TrackCalc(i, order)
    \/ \E i \in Threads : TrackAppend(i)
    \/ \E move \in BOOLEAN : \E order \in Orders(DOMAIN views[1].values) :
            TrackCommit(order, move)
    \/ InvalidateCall(1)
    \/ InvalidateChild
    \/ InvalidateReturn

SpecTrack == InitTrack /\ [][NextTrack]_vars

(***************************************************************************)
(* linearCodec: [db] is the codec (lock, nextTypeID and the two maps),     *)
(* [thr] the threads inside RegisterType, [mat] the initial nextTypeID     *)
(* and the types registered so far in the order their calls succeeded,     *)
(* [ret] the last PackPrefix or UnpackPrefix and what it returned.         *)
(***************************************************************************)
ErrDuplicateType == "ErrDuplicateType"
ErrUnregistered == "unregistered type"
ErrUnknownTypeID == "unknown type ID"

\* nextTypeID is a uint32, here two 16-bit limbs <<high, low>>
limbSize == 65536
MaxRegisterCalls == 2

\* n + j without the wrap: the high limb may leave the range of a limb
plus(n, j) == <<n[1] + ((n[2] + j) \div limbSize), (n[2] + j) % limbSize>>
\* n + j as a uint32
uint32Plus(n, j) == <<plus(n, j)[1] % limbSize, plus(n, j)[2]>>

Types == {"A", "B", "C"}
NoType == "none"
\* what WithNextTypeID can set
NextTypeIDs ==
    {<<0, 0>>, <<0, limbSize - 1>>, <<limbSize - 1, limbSize - 2>>,
     <<limbSize - 1, limbSize - 1>>}
TypeIDs == {uint32Plus(n, k) : n \in NextTypeIDs, k \in 0..3}

\* New
newLinearCodec(nextTypeID) ==
    [lock |-> NoOwner, nextTypeID |-> nextTypeID,
     typeIDToType |-> EmptyMap, typeToTypeID |-> EmptyMap]

\* a plausible slip: RegisterType without the look at typeToTypeID
existsNever(c, valType) == FALSE

\* RegisterType: _, exists := c.typeToTypeID[valType]
exists(c, valType) == valType \in DOMAIN c.typeToTypeID

\* c.nextTypeID++
nextTypeIDIncrement(c) == [c EXCEPT !.nextTypeID = uint32Plus(@, 1)]

CodecThr ==
    [i \in Threads |-> [pc |-> "idle", valType |-> NoType, err |-> NoErr, calls |-> 0]]

InitCodec ==
    /\ \E n \in NextTypeIDs :
        /\ db = newLinearCodec(n)
        /\ mat = [phase |-> "codec", initial |-> n, registered |-> <<>>]
    /\ views = [v \in ViewIds |-> NoView]
    /\ ret = NoRet
    /\ thr = CodecThr

\* a thread calls RegisterType(val)
RegisterTypeCall(i, valType) ==
    /\ thr[i].pc \in {"idle", "returned"}
    /\ thr[i].calls < MaxRegisterCalls
    /\ thr' = [thr EXCEPT ![i] = [pc |-> "lock", valType |-> valType,
                                  err |-> NoErr, calls |-> @.calls + 1]]
    /\ UNCHANGED <<db, views, mat, ret>>

\* c.lock.Lock()
RegisterTypeLock(i) ==
    /\ thr[i].pc = "lock"
    /\ db.lock = NoOwner
    /\ db' = [db EXCEPT !.lock = i]
    /\ thr' = [thr EXCEPT ![i].pc = "check"]
    /\ UNCHANGED <<views, mat, ret>>

\* the duplicate check; on a duplicate the deferred Unlock and the return
RegisterTypeCheck(i) ==
    /\ thr[i].pc = "check"
    /\ IF exists(db, thr[i].valType)
       THEN /\ db' = [db EXCEPT !.lock = NoOwner]
            /\ thr' = [thr EXCEPT ![i].pc = "returned", ![i].err = ErrDuplicateType]
       ELSE /\ thr' = [thr EXCEPT ![i].pc = "putID"]
            /\ UNCHANGED db
    /\ UNCHANGED <<views, mat, ret>>

\* c.typeIDToType[c.nextTypeID] = valType
RegisterTypePutID(i) ==
    /\ thr[i].pc = "putID"
    /\ db' = [db EXCEPT !.typeIDToType = Put(@, db.nextTypeID, thr[i].valType)]
    /\ thr' = [thr EXCEPT ![i].pc = "putType"]
    /\ UNCHANGED <<views, mat, ret>>

\* c.typeToTypeID[valType] = c.nextTypeID
RegisterTypePutType(i) ==
    /\ thr[i].pc = "putType"
    /\ db' = [db EXCEPT !.typeToTypeID = Put(@, thr[i].valType, db.nextTypeID)]
    /\ thr' = [thr EXCEPT ![i].pc = "increment"]
    /\ UNCHANGED <<views, mat, ret>>

\* c.nextTypeID++, the deferred Unlock and the return
RegisterTypeReturn(i) ==
    /\ thr[i].pc = "increment"
    /\ db' = [nextTypeIDIncrement(db) EXCEPT !.lock = NoOwner]
    /\ thr' = [thr EXCEPT ![i].pc = "returned"]
    /\ mat' = [mat EXCEPT !.registered = Append(@, thr[i].valType)]
    /\ UNCHANGED <<views, ret>>

\* PackPrefix: the read of typeToTypeID under the read lock
PackPrefix(valueType) ==
    /\ db.lock = NoOwner
    /\ ret' = IF valueType \in DOMAIN db.typeToTypeID
              THEN [op |-> "PackPrefix", err |-> NoErr, valType |-> valueType,
                    typeID |-> db.typeToTypeID[valueType]]
              ELSE [op |-> "PackPrefix", err |-> ErrUnregistered,
                    valType |-> valueType, typeID |-> <<0, 0>>]
    /\ UNCHANGED <<db, views, mat, thr>>

\* UnpackPrefix: the read of typeIDToType under the read lock
UnpackPrefix(typeID) ==
    /\ db.lock = NoOwner
    /\ ret' = IF typeID \in DOMAIN db.typeIDToType
              THEN [op |-> "UnpackPrefix", err |-> NoErr,
                    valType |-> db.typeIDToType[typeID], typeID |-> typeID]
              ELSE [op |-> "UnpackPrefix", err |-> ErrUnknownTypeID,
                    valType |-> NoType, typeID |-> typeID]
    /\ UNCHANGED <<db, views, mat, thr>>

NextCodec ==
    \/ \E i \in Threads, valType \in Types : RegisterTypeCall(i, valType)
    \/ \E i \in Threads : RegisterTypeLock(i)
    \/ \E i \in Threads : RegisterTypeCheck(i)
    \/ \E i \in Threads : RegisterTypePutID(i)
    \/ \E i \in Threads : RegisterTypePutType(i)
    \/ \E i \in Threads : RegisterTypeReturn(i)
    \/ \E valueType \in Types : PackPrefix(valueType)
    \/ \E typeID \in TypeIDs : UnpackPrefix(typeID)

SpecCodec == InitCodec /\ [][NextCodec]_vars

(***************************************************************************)
(* The nodes a view hands out: a materialised view over the database, and  *)
(* threads that take a node with getEditableNode and edit it.  [thr] holds *)
(* the node each thread got, as an object of its own: its value, the       *)
(* entries of its children map, and whether that map is the very map of    *)
(* the node the view keeps under the key.                                  *)
(***************************************************************************)
MaxEdits == 2

\* a plausible slip: the copy keeps the children map of [n]
cloneSharingChildren(n) ==
    [node |-> [value |-> n.value, children |-> n.children], sharesChildren |-> TRUE]

\* node.clone: the value is copied with the struct, the children into a new
\* map (maps.Clone)
clone(n) ==
    [node |-> [value |-> n.value, children |-> n.children], sharesChildren |-> FALSE]

CloneParentMaps == {m \in ParentMaps : Cardinality(DOMAIN m) <= 2}
ChildEntries == {newChild(<<>>, EmptyID, TRUE), newChild(<<1>>, EmptyID, FALSE)}

CloneThr ==
    [i \in Threads |-> [pc |-> "idle", key |-> emptyKey, node |-> NilNode,
                        sharesChildren |-> FALSE, err |-> NoErr]]

\* view 1 over the database, its IDs calculated
InitClone ==
    /\ db \in {[newDB(m) EXCEPT !.childViews = <<1>>] : m \in CloneParentMaps}
    /\ \E batch \in Batches :
        LET built == newTrieView([w \in ViewIds |-> NoView], DB, batch).t
            before == [v \in ViewIds |-> IF v = 1 THEN built ELSE NoView]
        IN  \E order \in Orders(DOMAIN built.values) :
                views = [before EXCEPT
                            ![1] = calculateNodeIDs(before, built, order, SemaCapacity).t]
    /\ mat = [phase |-> "clone", edits |-> 0]
    /\ ret = NoRet
    /\ thr = CloneThr

\* getEditableNode(key, hadValue) of view 1: the clone of what getNode found
EditableNodeCall(i, key, hadValue) ==
    /\ thr[i].pc = "idle"
    /\ LET got(r) ==
            IF r.err # NoErr
            THEN thr' = [thr EXCEPT ![i].pc = "returned", ![i].key = key,
                                    ![i].err = r.err]
            ELSE thr' = [thr EXCEPT
                            ![i] = [pc |-> "held", key |-> key, err |-> NoErr,
                                    node |-> clone(r.node).node,
                                    sharesChildren |->
                                        /\ clone(r.node).sharesChildren
                                        /\ key \in DOMAIN views[1].nodes]]
       IN  got(getEditableNode(views, views[1], key, hadValue))
    /\ UNCHANGED <<db, views, mat, ret>>

\* node.setValue on the node the thread holds
NodeSetValue(i, val) ==
    /\ thr[i].pc = "held"
    /\ mat.edits < MaxEdits
    /\ thr' = [thr EXCEPT ![i].node = setValue(@, val)]
    /\ mat' = [mat EXCEPT !.edits = @ + 1]
    /\ UNCHANGED <<db, views, ret>>

\* node.setChildEntry on the node the thread holds: a write to its children
\* map, which the node of the view sees when the map is its own
NodeSetChildEntry(i, index, childEntry) ==
    /\ thr[i].pc = "held"
    /\ mat.edits < MaxEdits
    /\ thr' = [thr EXCEPT ![i].node = setChildEntry(@, index, childEntry)]
    /\ views' = IF thr[i].sharesChildren
                THEN [views EXCEPT ![1] =
                        mutNode(@, thr[i].key,
                                setChildEntry(@.nodes[thr[i].key].after,
                                              index, childEntry))]
                ELSE views
    /\ mat' = [mat EXCEPT !.edits = @ + 1]
    /\ UNCHANGED <<db, ret>>

NextClone ==
    \/ \E i \in Threads, key \in Keys, hadValue \in BOOLEAN :
            EditableNodeCall(i, key, hadValue)
    \/ \E i \in Threads, val \in Values \cup {Nothing} : NodeSetValue(i, val)
    \/ \E i \in Threads, index \in Tokens, childEntry \in ChildEntries :
            NodeSetChildEntry(i, index, childEntry)

SpecClone == InitClone /\ [][NextClone]_vars

(***************************************************************************)
(* The lock of a statelessView, a sync.RWMutex: db.readers counts the read *)
(* locks each thread holds, db.writer is the thread that has called Lock   *)
(* and either waits for the readers to leave or holds the lock.  Once a    *)
(* writer has called Lock, RLock blocks until that writer has unlocked.    *)
(* [mat] holds what the calls read and write: changes.values,              *)
(* needsRecalculation and the state of the verifierIntercepter.            *)
(***************************************************************************)
MaxLockCalls == 2
LockWriters ==
    {"Insert", "Remove", "SetBase", "SetTemporaryState", "AddPermanentState",
     "GetMerkleRoot"}
LockKeyLists == {<<>>, <<(<<0>>)>>, <<(<<1>>), (<<0>>)>>}
LockStateMaps == {EmptyMap, [k \in {<<0>>} |-> "v1"]}

\* sync.RWMutex.RLock returns only when no writer holds or awaits the lock
canRLock(lock) == lock.writer = NoOwner
\* sync.RWMutex.Lock returns only when the readers have left
canLock(lock) == \A i \in Threads : lock.readers[i] = 0

LockThr ==
    [i \in Threads |-> [pc |-> "idle", op |-> "none", keys |-> <<>>,
                        values |-> EmptyMap, results |-> <<>>, calls |-> 0]]

InitLock ==
    /\ db = [readers |-> [i \in Threads |-> 0], writer |-> NoOwner]
    /\ views = [v \in ViewIds |-> NoView]
    /\ mat = [phase |-> "lock", values |-> EmptyMap, needsRecalculation |-> FALSE,
              sv |-> [parentTrie |-> "parent",
                      tempValues |-> EmptyMap, tempNodes |-> EmptyMap,
                      permValues |-> EmptyMap, permNodes |-> EmptyMap]]
    /\ ret = NoRet
    /\ thr = LockThr

\* a thread calls GetValues(keys)
LockGetValuesCall(i, keys) ==
    /\ thr[i].pc \in {"idle", "returned"}
    /\ thr[i].calls < MaxLockCalls
    /\ thr' = [thr EXCEPT ![i] = [pc |-> "GetValues", op |-> "GetValues",
                                  keys |-> keys, values |-> EmptyMap,
                                  results |-> <<>>, calls |-> @.calls + 1]]
    /\ UNCHANGED <<db, views, mat, ret>>

\* a thread calls one of the methods that take the lock for writing
LockWriterCall(i, op, values) ==
    /\ thr[i].pc \in {"idle", "returned"}
    /\ thr[i].calls < MaxLockCalls
    /\ thr' = [thr EXCEPT ![i] = [pc |-> "Lock", op |-> op, keys |-> <<(<<0>>)>>,
                                  values |-> values, results |-> <<>>,
                                  calls |-> @.calls + 1]]
    /\ UNCHANGED <<db, views, mat, ret>>

\* GetValues: t.lock.RLock()
GetValuesRLock(i) ==
    /\ thr[i].pc = "GetValues"
    /\ canRLock(db)
    /\ db' = [db EXCEPT !.readers[i] = @ + 1]
    /\ thr' = [thr EXCEPT ![i].pc = "loop"]
    /\ UNCHANGED <<views, mat, ret>>

\* GetValues, the loop: getValueCopy calls getValue, whose first statement is
\* t.lock.RLock()
GetValueRLock(i) ==
    /\ thr[i].pc = "loop"
    /\ Len(thr[i].results) < Len(thr[i].keys)
    /\ canRLock(db)
    /\ db' = [db EXCEPT !.readers[i] = @ + 1]
    /\ thr' = [thr EXCEPT ![i].pc = "getValue"]
    /\ UNCHANGED <<views, mat, ret>>

\* getValue: the look into changes.values, the deferred RUnlock
GetValueReturn(i) ==
    /\ thr[i].pc = "getValue"
    /\ LET key == thr[i].keys[Len(thr[i].results) + 1]
           found == IF key \in DOMAIN mat.values /\ mat.values[key] # Nothing
                    THEN mat.values[key]
                    ELSE ErrNotFound
       IN  thr' = [thr EXCEPT ![i].pc = "loop", ![i].results = Append(@, found)]
    /\ db' = [db EXCEPT !.readers[i] = @ - 1]
    /\ UNCHANGED <<views, mat, ret>>

\* GetValues: the loop is over, the deferred RUnlock
GetValuesReturn(i) ==
    /\ thr[i].pc = "loop"
    /\ Len(thr[i].results) = Len(thr[i].keys)
    /\ db' = [db EXCEPT !.readers[i] = @ - 1]
    /\ thr' = [thr EXCEPT ![i].pc = "returned"]
    /\ ret' = [op |-> "GetValues", err |-> NoErr, keys |-> thr[i].keys,
               results |-> thr[i].results]
    /\ UNCHANGED <<views, mat>>

\* t.lock.Lock(), first half: the writer announces itself, which stops new
\* readers
WriterLock(i) ==
    /\ thr[i].pc = "Lock"
    /\ db.writer = NoOwner
    /\ db' = [db EXCEPT !.writer = i]
    /\ thr' = [thr EXCEPT ![i].pc = "wait"]
    /\ UNCHANGED <<views, mat, ret>>

\* t.lock.Lock(), second half: the readers have left
WriterLocked(i) ==
    /\ thr[i].pc = "wait"
    /\ canLock(db)
    /\ thr' = [thr EXCEPT ![i].pc = "locked"]
    /\ UNCHANGED <<db, views, mat, ret>>

\* what the method does under the lock
lockedBody(m, op, key, values) ==
    IF op = "Insert"
    THEN [m EXCEPT !.values = Put(@, key, "v2"), !.needsRecalculation = TRUE]
    ELSE IF op = "Remove"
    THEN [m EXCEPT !.values = Put(@, key, Nothing), !.needsRecalculation = TRUE]
    ELSE IF op = "SetBase"
    THEN [m EXCEPT !.sv = statelessSetBase(@)]
    ELSE IF op = "SetTemporaryState"
    THEN [m EXCEPT !.sv = statelessSetTemporaryState(@, values, EmptyMap)]
    ELSE IF op = "AddPermanentState"
    THEN [m EXCEPT !.sv = statelessAddPermanentState(@, values, EmptyMap)]
    ELSE [m EXCEPT !.needsRecalculation = FALSE]

\* the body of the method and the deferred Unlock
WriterReturn(i) ==
    /\ thr[i].pc = "locked"
    /\ mat' = lockedBody(mat, thr[i].op, thr[i].keys[1], thr[i].values)
    /\ db' = [db EXCEPT !.writer = NoOwner]
    /\ thr' = [thr EXCEPT ![i].pc = "returned"]
    /\ ret' = [op |-> thr[i].op, err |-> NoErr]
    /\ UNCHANGED views

\* the steps of a call thread [i] has made
LockThread(i) ==
    \/ GetValuesRLock(i)
    \/ GetValueRLock(i)
    \/ GetValueReturn(i)
    \/ GetValuesReturn(i)
    \/ WriterLock(i)
    \/ WriterLocked(i)
    \/ WriterReturn(i)

NextLock ==
    \/ \E i \in Threads, keys \in LockKeyLists : LockGetValuesCall(i, keys)
    \/ \E i \in Threads, op \in LockWriters, values \in LockStateMaps :
            LockWriterCall(i, op, values)
    \/ \E i \in Threads : LockThread(i)

\* a thread inside a call that can take a step takes one in the end
SpecLock == InitLock /\ [][NextLock]_vars /\ \A i \in Threads : WF_vars(LockThread(i))

(***************************************************************************)
(* The validityTrackingLocks of a chain of views: view 1 over the          *)
(* database, view 2 over view 1, view 3 over view 2, all with their IDs    *)
(* calculated.  mat.locks holds one sync.RWMutex per view.  A thread runs  *)
(* one call at a time; thr[i].stack holds the frames of the call, the last *)
(* one running, and thr[i].held the views whose lock the thread has asked  *)
(* for and not released, in the order it asked.                            *)
(***************************************************************************)
MaxChainCalls == 1
ChainKeys == {<<0>>, <<0, 0>>}
ChainBatches == {<<>>, <<BatchOp(<<0, 0>>, "v2")>>}
ChainGets == {"getValue", "getEditableNode"}

\* the chain: view 1 from any batch, views 2 and 3 from a batch that sets <<0>>
ChainViews(d) ==
    UNION {{newViewOver([vs EXCEPT ![2] = calculateNodeIDs(vs, vs[2], order, d.sema).t],
                        d, 2, <<BatchOp(<<0>>, "v2")>>, 3).views :
                order \in Orders(DOMAIN vs[2].values)} :
           vs \in UNION {ViewOverView(d, b1, <<BatchOp(<<0>>, "v2")>>) : b1 \in Batches}}

ChainThr ==
    [i \in Threads |->
        [pc |-> "idle", op |-> "none", stack |-> <<>>, held |-> <<>>,
         err |-> NoErr, calls |-> 0, batch |-> <<>>, flag |-> FALSE,
         val |-> Nothing, node |-> NilNode, parent |-> DB,
         root |-> NilNode, before |-> Nothing]]

InitChain ==
    /\ \E m \in ViewMaps :
        /\ db = [newDB(m) EXCEPT !.childViews = <<1>>]
        /\ \E vs \in ChainViews([newDB(m) EXCEPT !.childViews = <<1>>]) :
            \E order \in Orders(DOMAIN vs[3].values) :
                views = [vs EXCEPT ![3] = calculateNodeIDs(vs, vs[3], order,
                                                           SemaCapacity).t]
    /\ mat = [phase |-> "chain",
              locks |-> [v \in ViewIds |->
                            [readers |-> [i \in Threads |-> 0], writer |-> NoOwner]]]
    /\ ret = NoRet
    /\ thr = ChainThr

frame(view, stage, kind, key) ==
    [view |-> view, stage |-> stage, kind |-> kind, key |-> key, idx |-> 1]
running(i) == thr[i].stack[Len(thr[i].stack)]
inStage(i, stages) == thr[i].pc = "run" /\ running(i).stage \in stages

setStage(th, stage) == [th EXCEPT !.stack[Len(th.stack)].stage = stage]
push(th, f) == [th EXCEPT !.stack = Append(@, f)]
\* the running frame returns to its caller
pop(th) ==
    IF Len(th.stack) = 1
    THEN [th EXCEPT !.stack = <<>>, !.pc = "returned"]
    ELSE [th EXCEPT !.stack = SubSeq(@, 1, Len(@) - 1)]
\* an error goes up through every frame of the call; the deferred unlocks run
failed(th, err) ==
    [th EXCEPT !.stack = <<>>, !.pc = "returned", !.err = err, !.held = <<>>]

hold(th, v) == [th EXCEPT !.held = Append(@, v)]
\* the last lock of [v] the thread asked for is released
unhold(th, v) ==
    LET last == CHOOSE a \in DOMAIN th.held :
                    /\ th.held[a] = v
                    /\ \A b \in DOMAIN th.held : th.held[b] = v => b <= a
    IN  [th EXCEPT !.held = SubSeq(@, 1, last - 1) \o SubSeq(@, last + 1, Len(@))]

RLock(locks, v, i) == [locks EXCEPT ![v].readers[i] = @ + 1]
RUnlock(locks, v, i) == [locks EXCEPT ![v].readers[i] = @ - 1]
Unlock(locks, v) == [locks EXCEPT ![v].writer = NoOwner]
unlockAll(locks, i) ==
    [v \in ViewIds |->
        [readers |-> [locks[v].readers EXCEPT ![i] = 0],
         writer |-> IF locks[v].writer = i THEN NoOwner ELSE locks[v].writer]]

\* a plausible slip: getParentTrie returns without releasing the read lock
getParentTrieKeepsLock(locks, v, i) == locks

\* getParentTrie: the deferred RUnlock
getParentTrieRUnlock(locks, v, i) == RUnlock(locks, v, i)

\* a thread calls getValue(key) or getEditableNode(key, true) on view [v]
ChainGetCall(i, op, v, key) ==
    /\ thr[i].pc \in {"idle", "returned"}
    /\ thr[i].calls < MaxChainCalls
    /\ views[v].exists
    /\ thr' = [thr EXCEPT ![i] =
                [ChainThr[i] EXCEPT !.pc = "run", !.op = op,
                    !.calls = thr[i].calls + 1,
                    !.stack = <<frame(v, "isInvalid",
                                      IF op = "getValue" THEN "value" ELSE "node",
                                      key)>>]]
    /\ UNCHANGED <<db, views, mat, ret>>

\* a thread calls isInvalid, getParentTrie, invalidate or updateParent(db) on
\* view [v]
ChainCall(i, op, v) ==
    /\ thr[i].pc \in {"idle", "returned"}
    /\ thr[i].calls < MaxChainCalls
    /\ views[v].exists
    /\ thr' = [thr EXCEPT ![i] =
                [ChainThr[i] EXCEPT !.pc = "run", !.op = op,
                    !.calls = thr[i].calls + 1,
                    !.stack = <<IF op = "isInvalid"
                                THEN frame(v, "isInvalid", "flag", emptyKey)
                                ELSE IF op = "getParentTrie"
                                THEN frame(v, "getParentTrie", "parent", emptyKey)
                                ELSE frame(v, "Lock", op, emptyKey)>>]]
    /\ UNCHANGED <<db, views, mat, ret>>

\* a thread calls NewView(batch) on view [v]; there is room for one more view
ChainNewViewCall(i, v, batch) ==
    /\ thr[i].pc \in {"idle", "returned"}
    /\ thr[i].calls < MaxChainCalls
    /\ views[v].exists
    /\ \A j \in Threads : thr[j].op # "NewView"
    /\ thr' = [thr EXCEPT ![i] =
                [ChainThr[i] EXCEPT !.pc = "run", !.op = "NewView",
                    !.calls = thr[i].calls + 1, !.batch = batch,
                    !.stack = <<frame(v, "start", "NewView", emptyKey)>>]]
    /\ UNCHANGED <<db, views, mat, ret>>

\* validityTrackingLock.RLock() in isInvalid and in getParentTrie
ChainRLock(i) ==
    /\ inStage(i, {"isInvalid", "getParentTrie", "recheck"})
    /\ canRLock(mat.locks[running(i).view])
    /\ mat' = [mat EXCEPT !.locks = RLock(@, running(i).view, i)]
    /\ thr' = [thr EXCEPT ![i] =
                setStage(hold(@, running(i).view),
                         IF running(i).stage = "isInvalid" THEN "isInvalidRead"
                         ELSE IF running(i).stage = "getParentTrie"
                         THEN "getParentTrieRead"
                         ELSE "recheckRead")]
    /\ UNCHANGED <<db, views, ret>>

\* what the view itself holds for the key: its changes.values for getValue,
\* its changes.nodes for getNode
heldLocally(t, kind, key) ==
    IF kind = "value" THEN key \in DOMAIN t.values ELSE key \in DOMAIN t.nodes

\* isInvalid returns, and getValue or getEditableNode looks into the view's
\* own changes
ChainIsInvalidRead(i) ==
    /\ inStage(i, {"isInvalidRead"})
    /\ LET v == running(i).view
           kind == running(i).kind
           key == running(i).key
           released == unhold(thr[i], v)
       IN  IF kind = "flag"
           THEN /\ thr' = [thr EXCEPT ![i] =
                            pop([released EXCEPT !.flag = views[v].invalidated])]
                /\ mat' = [mat EXCEPT !.locks = RUnlock(@, v, i)]
           ELSE IF views[v].invalidated
           THEN /\ thr' = [thr EXCEPT ![i] = failed(released, ErrInvalid)]
                /\ mat' = [mat EXCEPT !.locks = unlockAll(@, i)]
           ELSE IF ~heldLocally(views[v], kind, key)
           THEN /\ thr' = [thr EXCEPT ![i] = setStage(released, "getParentTrie")]
                /\ mat' = [mat EXCEPT !.locks = RUnlock(@, v, i)]
           ELSE IF kind = "value"
           THEN /\ thr' = [thr EXCEPT ![i] =
                            pop([released EXCEPT !.val = views[v].values[key].after])]
                /\ mat' = [mat EXCEPT !.locks = RUnlock(@, v, i)]
           ELSE IF views[v].nodes[key].after = NilNode
           THEN /\ thr' = [thr EXCEPT ![i] = failed(released, ErrNotFound)]
                /\ mat' = [mat EXCEPT !.locks = unlockAll(@, i)]
           ELSE /\ thr' = [thr EXCEPT ![i] =
                            pop([released EXCEPT !.node = views[v].nodes[key].after])]
                /\ mat' = [mat EXCEPT !.locks = RUnlock(@, v, i)]
    /\ UNCHANGED <<db, views, ret>>

\* getParentTrie returns; getValue and getEditableNode go on in the parent,
\* the database answers at once
ChainParentRead(i) ==
    /\ inStage(i, {"getParentTrieRead"})
    /\ LET v == running(i).view
           kind == running(i).kind
           key == running(i).key
           locks == getParentTrieRUnlock(mat.locks, v, i)
           released == IF locks[v].readers[i] < mat.locks[v].readers[i]
                       THEN unhold(thr[i], v)
                       ELSE thr[i]
           parent == getParentTrie(views[v])
       IN  IF kind = "parent"
           THEN /\ thr' = [thr EXCEPT ![i] = pop([released EXCEPT !.parent = parent])]
                /\ mat' = [mat EXCEPT !.locks = locks]
           ELSE IF parent # DB
           THEN /\ thr' = [thr EXCEPT ![i] =
                            push(setStage(released, "recheck"),
                                 frame(parent, "isInvalid", kind, key))]
                /\ mat' = [mat EXCEPT !.locks = locks]
           ELSE IF kind = "value"
           THEN /\ thr' = [thr EXCEPT ![i] =
                            setStage([released EXCEPT !.val = dbGetValue(key).val],
                                     "recheck")]
                /\ mat' = [mat EXCEPT !.locks = locks]
           ELSE IF dbGetEditableNode(key, TRUE).err # NoErr
           THEN /\ thr' = [thr EXCEPT ![i] =
                            failed(released, dbGetEditableNode(key, TRUE).err)]
                /\ mat' = [mat EXCEPT !.locks = unlockAll(locks, i)]
           ELSE /\ thr' = [thr EXCEPT ![i] =
                            setStage([released EXCEPT
                                        !.node = dbGetEditableNode(key, TRUE).node],
                                     "recheck")]
                /\ mat' = [mat EXCEPT !.locks = locks]
    /\ UNCHANGED <<db, views, ret>>

\* the second isInvalid of getValue and getEditableNode returns
ChainRecheckRead(i) ==
    /\ inStage(i, {"recheckRead"})
    /\ IF views[running(i).view].invalidated
       THEN /\ thr' = [thr EXCEPT ![i] =
                        failed(unhold(@, running(i).view), ErrInvalid)]
            /\ mat' = [mat EXCEPT !.locks = unlockAll(@, i)]
       ELSE /\ thr' = [thr EXCEPT ![i] = pop(unhold(@, running(i).view))]
            /\ mat' = [mat EXCEPT !.locks = RUnlock(@, running(i).view, i)]
    /\ UNCHANGED <<db, views, ret>>

\* validityTrackingLock.Lock(), first half: the writer announces itself
ChainLock(i) ==
    /\ inStage(i, {"Lock"})
    /\ mat.locks[running(i).view].writer = NoOwner
    /\ mat' = [mat EXCEPT !.locks[running(i).view].writer = i]
    /\ thr' = [thr EXCEPT ![i] = setStage(hold(@, running(i).view), "wait")]
    /\ UNCHANGED <<db, views, ret>>

\* invalidate: the lock is taken and the flag set
ChainInvalidate(i) ==
    /\ inStage(i, {"wait"})
    /\ running(i).kind = "invalidate"
    /\ canLock(mat.locks[running(i).view])
    /\ views' = [views EXCEPT ![running(i).view].invalidated = TRUE]
    /\ thr' = [thr EXCEPT ![i] = setStage(@, "children")]
    /\ UNCHANGED <<db, mat, ret>>

\* invalidate: the loop over childViews, each child invalidated with the
\* lock of this view held, then the list emptied and the deferred Unlock
ChainInvalidateChild(i) ==
    /\ inStage(i, {"children"})
    /\ LET v == running(i).view
           idx == running(i).idx
       IN  IF idx <= Len(views[v].childViews)
           THEN /\ thr' = [thr EXCEPT ![i] =
                            push([@ EXCEPT !.stack[Len(@.stack)].idx = idx + 1],
                                 frame(views[v].childViews[idx], "Lock",
                                       "invalidate", emptyKey))]
                /\ UNCHANGED <<views, mat>>
           ELSE /\ views' = [views EXCEPT ![v].childViews = <<>>]
                /\ mat' = [mat EXCEPT !.locks = Unlock(@, v)]
                /\ thr' = [thr EXCEPT ![i] = pop(unhold(@, v))]
    /\ UNCHANGED <<db, ret>>

\* updateParent: the lock is taken, the parent set, the deferred Unlock
ChainUpdateParent(i) ==
    /\ inStage(i, {"wait"})
    /\ running(i).kind = "updateParent"
    /\ canLock(mat.locks[running(i).view])
    /\ views' = updateParent(views, running(i).view, DB)
    /\ mat' = [mat EXCEPT !.locks = Unlock(@, running(i).view)]
    /\ thr' = [thr EXCEPT ![i] = pop(unhold(@, running(i).view))]
    /\ UNCHANGED <<db, ret>>

\* NewView up to its Lock: isInvalid, then newTrieView, which asks the view
\* for its root with getEditableNode and for the value of each key of the
\* batch with getValue
ChainNewView(i) ==
    /\ inStage(i, {"start", "root", "values", "before"})
    /\ LET v == running(i).view
           stage == running(i).stage
       IN  thr' = [thr EXCEPT ![i] =
                IF stage = "start"
                THEN push(setStage(@, "root"), frame(v, "isInvalid", "flag", emptyKey))
                ELSE IF stage = "root"
                THEN IF @.flag
                     THEN failed(@, ErrInvalid)
                     ELSE push(setStage(@, "values"),
                               frame(v, "isInvalid", "node", emptyKey))
                ELSE IF stage = "values"
                THEN IF @.batch = <<>>
                     THEN setStage([@ EXCEPT !.root = thr[i].node], "Lock")
                     ELSE push(setStage([@ EXCEPT !.root = thr[i].node], "before"),
                               frame(v, "isInvalid", "value", @.batch[1].key))
                ELSE setStage([@ EXCEPT !.before = thr[i].val], "Lock")]
    /\ UNCHANGED <<db, views, mat, ret>>

\* the view newTrieView has built from what it read
builtView(parent, root, batch, before) ==
    [newView(parent, root) EXCEPT
        !.values = IF batch = <<>>
                   THEN EmptyMap
                   ELSE Put(EmptyMap, batch[1].key,
                            [before |-> before, after |-> batch[1].value])]

\* NewView: with the lock held, the second look at the flag, the append to
\* childViews, the deferred Unlock
ChainNewViewAppend(i) ==
    /\ inStage(i, {"wait"})
    /\ running(i).kind = "NewView"
    /\ canLock(mat.locks[running(i).view])
    /\ LET v == running(i).view
       IN  IF newViewTrack(views[v].invalidated) # NoErr
           THEN /\ thr' = [thr EXCEPT ![i] = failed(@, ErrInvalid)]
                /\ mat' = [mat EXCEPT !.locks = unlockAll(@, i)]
                /\ UNCHANGED views
           ELSE /\ views' = [views EXCEPT
                                ![v].childViews = Append(@, MaxViews),
                                ![MaxViews] = builtView(v, thr[i].root, thr[i].batch,
                                                        thr[i].before)]
                /\ mat' = [mat EXCEPT !.locks = Unlock(@, v)]
                /\ thr' = [thr EXCEPT ![i] = pop(unhold(@, v))]
    /\ UNCHANGED <<db, ret>>

\* the steps of the call thread [i] is in
ChainThread(i) ==
    \/ ChainRLock(i)
    \/ ChainIsInvalidRead(i)
    \/ ChainParentRead(i)
    \/ ChainRecheckRead(i)
    \/ ChainLock(i)
    \/ ChainInvalidate(i)
    \/ ChainInvalidateChild(i)
    \/ ChainUpdateParent(i)
    \/ ChainNewView(i)
    \/ ChainNewViewAppend(i)

NextChain ==
    \/ \E i \in Threads, op \in ChainGets, v \in ViewIds, key \in ChainKeys :
            ChainGetCall(i, op, v, key)
    \/ \E i \in Threads, v \in ViewIds :
        \E op \in {"isInvalid", "getParentTrie", "invalidate", "updateParent"} :
            ChainCall(i, op, v)
    \/ \E i \in Threads, v \in ViewIds, batch \in ChainBatches :
            ChainNewViewCall(i, v, batch)
    \/ \E i \in Threads : ChainThread(i)

\* a thread inside a call that can take a step takes one in the end
SpecChain == InitChain /\ [][NextChain]_vars /\ \A i \in Threads : WF_vars(ChainThread(i))

(***************************************************************************)
(* The reads of a view: one view over the database, and the calls a        *)
(* client makes on it, each one step; [ret] holds the last call and what   *)
(* it returned.  A statelessView stands beside it for its GetValues.       *)
(***************************************************************************)
QueryBatches ==
    {<<>>} \cup {<<BatchOp(k, v)>> : k \in Keys, v \in {"v2", Nothing}}
KeyLists == {<<>>} \cup {<<k>> : k \in Keys} \cup {<<k1, k2>> : k1, k2 \in Keys}
StatelessKeyLists ==
    {keys \in KeyLists : \A i \in DOMAIN keys : Len(keys[i]) <= 2 /\ keys[i] # <<1>>}
StatelessViews ==
    {[values |-> vals, rootValue |-> root,
      tempValues |-> [k \in {<<0, 0>>} |-> "v1"],
      permValues |-> [k \in {<<0, 1>>} |-> Nothing]] :
        vals \in {EmptyMap, [k \in {<<0>>} |-> "v2"], [k \in {<<0>>} |-> Nothing]},
        root \in {Nothing, "v1"}}

InitQuery ==
    /\ db \in {[newDB(m) EXCEPT !.childViews = <<1>>] : m \in ParentMaps}
    /\ \E batch \in QueryBatches :
        views = [v \in ViewIds |->
                    IF v = 1
                    THEN newTrieView([w \in ViewIds |-> NoView], DB, batch).t
                    ELSE NoView]
    /\ mat = [phase |-> "query", calls |-> 0]
    /\ ret = NoRet
    /\ thr = NoThr

GetValuesCall(keys) ==
    /\ mat.phase = "query"
    /\ mat.calls < MaxCalls
    /\ LET called(r) ==
            ret' = [op |-> "GetValues", keys |-> keys,
                    results |-> r.results, errors |-> r.errors]
       IN  called(GetValues(views, views[1], keys))
    /\ mat' = [mat EXCEPT !.calls = @ + 1]
    /\ UNCHANGED <<db, views, thr>>

\* GetValues of a statelessView [sv]
StatelessGetValuesCall(sv, keys) ==
    /\ mat.phase = "query"
    /\ mat.calls < MaxCalls
    /\ LET called(r) ==
            ret' = [op |-> "statelessGetValues", sv |-> sv, keys |-> keys,
                    results |-> r.results, errors |-> r.errors]
       IN  called(statelessGetValues(sv, keys))
    /\ mat' = [mat EXCEPT !.calls = @ + 1]
    /\ UNCHANGED <<db, views, thr>>

NextQuery ==
    \/ \E keys \in KeyLists : GetValuesCall(keys)
    \/ \E sv \in StatelessViews, keys \in StatelessKeyLists :
        StatelessGetValuesCall(sv, keys)

SpecQuery == InitQuery /\ [][NextQuery]_vars

(***************************************************************************)
(* The proofs of a view: one call of GetRangeProof or of GetProof on a     *)
(* view over the database, whose IDs are not calculated yet.               *)
(***************************************************************************)
MaxRangeLength == 2
MaxRangeKeys == 3
RangeKeys == {k \in Keys : Len(k) < MaxKeyLen}
MaybeKeys ==
    {[has |-> FALSE, value |-> emptyKey]} \cup {[has |-> TRUE, value |-> k] : k \in RangeKeys}
RangeMaps == {m \in ParentMaps : Cardinality(DOMAIN m) <= MaxRangeKeys}

InitRange ==
    /\ db \in {[newDB(m) EXCEPT !.childViews = <<1>>] : m \in RangeMaps}
    /\ \E batch \in QueryBatches :
        views = [v \in ViewIds |->
                    IF v = 1
                    THEN newTrieView([w \in ViewIds |-> NoView], DB, batch).t
                    ELSE NoView]
    /\ mat = [phase |-> "range", calls |-> 0]
    /\ ret = NoRet
    /\ thr = NoThr

GetRangeProofCall(start, end, maxLength, order) ==
    /\ mat.phase = "range"
    /\ mat.calls < MaxCalls
    /\ order \in Orders(DOMAIN views[1].values)
    /\ rangeInputErr(start, end, maxLength) = NoErr
        => ~calcBlocks(views, views[1], order, db.sema)
    /\ LET called(r) ==
            /\ views' = [views EXCEPT ![1] = r.t]
            /\ db' = [db EXCEPT !.sema = r.permits]
            /\ ret' = [op |-> "GetRangeProof", start |-> start, end |-> end,
                       maxLength |-> maxLength, err |-> r.err, proof |-> r.proof]
       IN  called(GetRangeProof(views, views[1], start, end, maxLength, order,
                                db.sema))
    /\ mat' = [mat EXCEPT !.calls = @ + 1]
    /\ UNCHANGED thr

GetProofCall(key, order) ==
    /\ mat.phase = "range"
    /\ mat.calls < MaxCalls
    /\ order \in Orders(DOMAIN views[1].values)
    /\ ~calcBlocks(views, views[1], order, db.sema)
    /\ LET called(r) ==
            /\ views' = [views EXCEPT ![1] = r.t]
            /\ db' = [db EXCEPT !.sema = r.permits]
            /\ ret' = [op |-> "GetProof", key |-> key, err |-> r.err,
                       proof |-> r.proof]
       IN  called(GetProof(views, views[1], key, order, db.sema))
    /\ mat' = [mat EXCEPT !.calls = @ + 1]
    /\ UNCHANGED thr

NextRange ==
    \/ \E start \in MaybeKeys, end \in MaybeKeys, maxLength \in 0..MaxRangeLength :
        \E order \in Orders(DOMAIN views[1].values) :
            GetRangeProofCall(start, end, maxLength, order)
    \/ \E key \in Keys, order \in Orders(DOMAIN views[1].values) :
        GetProofCall(key, order)

SpecRange == InitRange /\ [][NextRange]_vars

(***************************************************************************)
(* The root of a view whose batch repeats what is there already: a view    *)
(* over the database is made with a batch of one operation, or of two on   *)
(* one key, and is asked for its root.                                     *)
(***************************************************************************)
IdemValues == Values \cup {Nothing}
IdemBatches ==
    {<<BatchOp(k, v)>> : k \in Keys, v \in IdemValues}
        \cup {<<BatchOp(k, v), BatchOp(k, w)>> : k \in Keys, v \in IdemValues, w \in IdemValues}

InitIdem ==
    /\ db \in {[newDB(m) EXCEPT !.childViews = <<1>>] : m \in ParentMaps}
    /\ \E batch \in IdemBatches :
        /\ views = [v \in ViewIds |->
                        IF v = 1
                        THEN newTrieView([w \in ViewIds |-> NoView], DB, batch).t
                        ELSE NoView]
        /\ mat = [phase |-> "idem", calls |-> 0, batch |-> batch]
    /\ ret = NoRet
    /\ thr = NoThr

\* GetMerkleRoot of the view
RootOfBatchCall(order) ==
    /\ mat.phase = "idem"
    /\ mat.calls < MaxCalls
    /\ order \in Orders(DOMAIN views[1].values)
    /\ ~calcBlocks(views, views[1], order, db.sema)
    /\ LET called(r) ==
            /\ views' = [views EXCEPT ![1] = r.t]
            /\ db' = [db EXCEPT !.sema = r.permits]
            /\ ret' = [op |-> "GetMerkleRoot", err |-> r.err, id |-> r.id]
       IN  called(GetMerkleRoot(views, views[1], order, db.sema))
    /\ mat' = [mat EXCEPT !.calls = @ + 1]
    /\ UNCHANGED thr

NextIdem == \E order \in Orders(DOMAIN views[1].values) : RootOfBatchCall(order)

SpecIdem == InitIdem /\ [][NextIdem]_vars

(***************************************************************************)
(* The making of views.  Views 1 and 2 stand over a database that holds a  *)
(* root, or the database holds none and there is no view; views are made   *)
(* by NewView, and by newTrieView called as NewView calls it, after the    *)
(* receiver passed NewView's own checks; a commit invalidates the sibling. *)
(***************************************************************************)
NoRootDB == [newDB(EmptyMap) EXCEPT !.nodes = EmptyMap]

InitNewView ==
    \/ /\ db \in {[newDB(m) EXCEPT !.childViews = <<1, 2>>] : m \in ViewMaps}
       /\ \E b1 \in Batches, b2 \in Batches :
            views = [v \in ViewIds |->
                        CASE v = 1 -> newTrieView([w \in ViewIds |-> NoView], DB, b1).t
                          [] v = 2 -> newTrieView([w \in ViewIds |-> NoView], DB, b2).t
                          [] OTHER -> NoView]
       /\ mat = [phase |-> "newview"]
       /\ ret = NoRet
       /\ thr = NoThr
    \/ /\ db = NoRootDB
       /\ views = [v \in ViewIds |-> NoView]
       /\ mat = [phase |-> "newview"]
       /\ ret = NoRet
       /\ thr = NoThr

\* newTrieView(db, parentTrie, changes), its result handed back
NewTrieViewCall(parentTrie, batch) ==
    /\ mat.phase = "newview"
    /\ parentTrie \in Existing \cup {DB}
    /\ LET called(r) ==
            ret' = [op |-> "newTrieView", parent |-> parentTrie,
                    err |-> r.err, view |-> r.t]
       IN  called(newTrieView(views, parentTrie, batch))
    /\ UNCHANGED <<db, views, mat, thr>>

\* NewView of the database or of a view
MakeViewCall(id, batch, order) ==
    /\ mat.phase = "newview"
    /\ id \in Existing \cup {DB}
    /\ FreeIds # {}
    /\ order \in ReceiverOrders(views, id)
    /\ newViewReceiver(views, id) # DB
        => ~calcBlocks(views, views[newViewReceiver(views, id)], order, db.sema)
    /\ LET called(o) ==
            /\ views' = o.views
            /\ db' = o.db
            /\ ret' = [op |-> "NewView", parent |-> newViewReceiver(views, id),
                       err |-> o.err, view |-> NoView]
       IN  called(NewView(views, db, id, batch, order, NextId))
    /\ UNCHANGED <<mat, thr>>

\* a view is committed, which invalidates its sibling
CommitSiblingCall(id, order, move) ==
    /\ mat.phase = "newview"
    /\ id \in Existing
    /\ order \in Orders(DOMAIN views[id].values)
    /\ ~calcBlocks(views, views[id], order, db.sema)
    /\ LET called(o) ==
            /\ views' = o.views
            /\ db' = o.db
       IN  called(CommitToDB(views, db, id, order, move))
    /\ UNCHANGED <<mat, ret, thr>>

NextNewView ==
    \/ \E parentTrie \in ViewIds \cup {DB}, batch \in Batches :
        NewTrieViewCall(parentTrie, batch)
    \/ \E id \in ViewIds \cup {DB}, batch \in Batches :
        \E order \in ReceiverOrders(views, id) : MakeViewCall(id, batch, order)
    \/ \E id \in ViewIds, move \in BOOLEAN :
        \E order \in Orders(DOMAIN views[id].values) :
            CommitSiblingCall(id, order, move)

SpecNewView == InitNewView /\ [][NextNewView]_vars

(***************************************************************************)
(* Claims.                                                                 *)
(***************************************************************************)

\* C1: after materialisation the Merkle root of the view equals the root of
\* the reference trie built from the final key->value map (the parent's map
\* overridden by the batch).
C1_RootEqualsReference ==
    Done /\ mat.err = NoErr => views[1].rootID = RefRootID(FinalMap(views[1]))

\* C2: the materialised state does not depend on the order in which the
\* changed values are applied: every order gives the same error, the same
\* nodes with the same values and child entries, and the same root ID.
C2_OrderIndependent ==
    mat.phase = "fresh" =>
        \A o1, o2 \in Orders(DOMAIN views[1].values) :
            LET a == calcBody(views, views[1], o1, db.sema)
                b == calcBody(views, views[1], o2, db.sema)
            IN  /\ a.err = b.err
                /\ Trie(views, a.t) = Trie(views, b.t)
                /\ a.t.rootID = b.t.rootID

\* C3: the parent trie is compressed, and after the view has materialised
\* its batch no node of its trie other than the root is value-less with
\* exactly one child.
C3_CompressionInvariant ==
    Done /\ mat.err = NoErr => Compressed(views, views[1])

\* C4: read-your-writes: GetValue of a built view returns, for a key of the
\* batch, the value of the last operation on it (NotFound when that is a
\* delete) and, for every other key, what the parent returns.
C4_ReadYourWrites ==
    mat.phase \in {"fresh", "applying", "done"} =>
        \A k \in Keys :
            LET got == GetValue(views, views[1], k)
                want == IF k \in DOMAIN mat.last THEN mat.last[k]
                        ELSE IF k \in DOMAIN db.values THEN db.values[k]
                        ELSE Nothing
            IN  IF want = Nothing
                THEN got.err = ErrNotFound
                ELSE got.err = NoErr /\ got.val = want

\* a key was written and then deleted or overwritten, and the view is built
C4_Witness ==
    /\ mat.phase = "done"
    /\ mat.nops = 2
    /\ \E k \in DOMAIN mat.last :
        /\ DOMAIN mat.last = {k}
        /\ mat.last[k] = "v2"
        /\ k \in DOMAIN db.values

\* C8: once nodesAlreadyCalculated is set, insert, remove, compressNodePath,
\* recordValueChange and recordKeyChange return ErrNodesAlreadyCalculated and
\* change nothing of the view.
C8_MutationsRejected ==
    [][(ret' # ret /\ ret'.op \in Mutators /\ views[1].nodesAlreadyCalculated)
        => (ret'.err = ErrNodesAlreadyCalculated /\ views'[1] = views[1])]_vars

\* a mutator was called on a view whose IDs were calculated from a batch
C8_Witness ==
    /\ ret.op = "recordValueChange"
    /\ ret.err = ErrNodesAlreadyCalculated
    /\ views[1].nodesAlreadyCalculated
    /\ views[1].rootID # EmptyID
    /\ DOMAIN views[1].values # {}

\* the views made over the views of [S], directly or through other views
RECURSIVE Descendants(_)
Descendants(S) ==
    LET more == S \cup {u \in DOMAIN mat.over : mat.over[u] \in S}
    IN  IF more = S THEN S ELSE Descendants(more)

\* the views that childViews lists lead to from the views of [S]
RECURSIVE Reachable(_, _)
Reachable(vs, S) ==
    LET more == S \cup {u \in ViewIds : \E v \in S :
                            \E i \in DOMAIN vs[v].childViews : vs[v].childViews[i] = u}
    IN  IF more = S THEN S ELSE Reachable(vs, more)

\* C5: invalidation is terminal: the flag is never cleared, and on an
\* invalidated view every GetValue, GetProof, GetMerkleRoot and NewView fails
\* with ErrInvalid, whether or not the view's IDs were calculated before.
C5_InvalidatedCallsFail ==
    \A id \in Existing :
        views[id].invalidated =>
            \A order \in Orders(DOMAIN views[id].values) :
                /\ \A k \in Keys : GetValue(views, views[id], k).err = ErrInvalid
                /\ \A k \in Keys :
                    GetProof(views, views[id], k, order, db.sema).err = ErrInvalid
                /\ GetMerkleRoot(views, views[id], order, db.sema).err = ErrInvalid
                /\ \A batch \in Batches :
                    NewView(views, db, id, batch, order, id).err = ErrInvalid

\* C9: v1 is a view over the database, v2 a view over v1 and v3 was made by
\* v1.NewView: once v3 is committed, GetValue of any key on v2 and on every
\* descendant of v2 returns ErrInvalid.
C9_DescendantsInvalidAfterCommit ==
    \A v1, v2, v3 \in Existing :
        (/\ v2 # v3
         /\ mat.over[v1] = DB
         /\ mat.over[v2] = v1
         /\ mat.origin[v3] = v1
         /\ views[v3].committed)
        => \A u \in Descendants({v2}), k \in Keys :
                GetValue(views, views[u], k).err = ErrInvalid

\* v3 is committed and a view made over v2 with a change of its own is read
C9_Witness ==
    \E v1, v2, v3, v4 \in Existing :
        /\ v2 # v3
        /\ mat.over[v1] = DB
        /\ mat.over[v2] = v1
        /\ mat.origin[v3] = v1
        /\ views[v3].committed
        /\ mat.over[v4] = v2
        /\ <<0>> \in DOMAIN views[v4].values
        /\ GetValue(views, views[v4], <<0>>).err = ErrInvalid

\* C10: when invalidate() has run on a view, that view and every view that
\* its childViews lists led to, to any depth, are invalidated, and the
\* childViews list of each of them is empty.
C10_InvalidateReachesAll ==
    [][\A v \in ViewIds :
        (~views[v].invalidated /\ views'[v].invalidated)
        => \A u \in Reachable(views, {v}) :
                views'[u].invalidated /\ views'[u].childViews = <<>>]_vars

\* a view, a child of it and a child of that child were invalidated together
C10_Witness ==
    \E v, u, w \in Existing :
        /\ mat.over[u] = v
        /\ mat.over[w] = u
        /\ views[v].parentTrie = DB
        /\ \A x \in {v, u, w} : views[x].invalidated /\ views[x].childViews = <<>>

\* C6: under any interleaving of concurrent GetMerkleRoot, GetProof, NewView
\* and CommitToDB calls on one view, the body of calculateNodeIDs is entered
\* at most once, and a caller is past calculateNodeIDs only when that one
\* execution has finished.
C6_MaterialisedOnce ==
    /\ mat.runs <= 1
    /\ \A i \in Threads :
        thr[i].pc = "after" =>
            /\ views[1].calculateNodesOnce = "done"
            /\ mat.pending = {}
            /\ mat.runs = 1

\* one caller is in the body, with changed values left to apply, while the
\* other waits in calculateNodesOnce.Do
C6_Witness ==
    \E i, j \in Threads :
        /\ thr[i].pc = "body"
        /\ mat.pending # {}
        /\ thr[j].pc = "calc"
        /\ thr[j].op # thr[i].op

\* C7: when the materialisation of a view has failed, every call of
\* GetMerkleRoot, NewView or CommitToDB on the view returns an error, the
\* calls running at the same time and the later ones alike.
C7_FailureSurfaced ==
    \A i \in Threads :
        (/\ mat.err # NoErr
         /\ thr[i].pc = "returned"
         /\ thr[i].op \in {"GetMerkleRoot", "NewView", "CommitToDB"})
        => thr[i].err # NoErr

\* C11: a getValue that asked its parent returns a value only if the view's
\* invalidated flag is false at the re-check, a moment after the parent's
\* getValue returned; when the flag is set by then, the read returns
\* ErrInvalid.
C11_RecheckAfterParent ==
    [][\A i \in Threads :
        (thr[i].pc = "recheck" /\ thr'[i] # thr[i] /\ thr[i].res.err = NoErr)
            => /\ thr'[i].res.err = NoErr => ~views[top(i)].invalidated
               /\ views[top(i)].invalidated => thr'[i].res.err = ErrInvalid]_vars

\* a read passed the check at entry, asked its parent, and returned
\* ErrInvalid because an invalidation completed before the re-check
C11_Witness ==
    /\ mat.phase = "read"
    /\ mat.done
    /\ \E i \in Threads :
        /\ thr[i].pc = "returned"
        /\ thr[i].delegated
        /\ thr[i].res.err = ErrInvalid
    /\ \E i \in Threads :
        /\ thr[i].pc = "returned"
        /\ thr[i].delegated
        /\ thr[i].res.err = NoErr
        /\ thr[i].res.val # Nothing

\* C12: GetValues(keys) returns two lists as long as keys, and position i of
\* them holds the value and the error GetValue(keys[i]) returns; a key that
\* fails changes nothing at the other positions.  The same holds of the
\* statelessView.
C12_GetValuesPositional ==
    /\ ret.op = "GetValues" =>
        /\ Len(ret.results) = Len(ret.keys) /\ Len(ret.errors) = Len(ret.keys)
        /\ \A i \in DOMAIN ret.keys :
            /\ ret.results[i] = GetValue(views, views[1], ret.keys[i]).val
            /\ ret.errors[i] = GetValue(views, views[1], ret.keys[i]).err
    /\ ret.op = "statelessGetValues" =>
        /\ Len(ret.results) = Len(ret.keys) /\ Len(ret.errors) = Len(ret.keys)
        /\ \A i \in DOMAIN ret.keys :
            /\ ret.results[i] = statelessGetValueCopy(ret.sv, ret.keys[i]).val
            /\ ret.errors[i] = statelessGetValueCopy(ret.sv, ret.keys[i]).err

\* GetValues met a key that is not there before a key that is
C12_Witness ==
    /\ ret.op = "GetValues"
    /\ Len(ret.keys) = 2
    /\ ret.errors[1] = ErrNotFound
    /\ ret.errors[2] = NoErr
    /\ ret.results[2] = "v2"

\* C13: newTrieView fails with ErrNoValidRoot exactly when the parent's
\* getEditableNode of the empty key answers NotFound, and with the parent's
\* own error when that is another one; then it returns no view, and a NewView
\* that made the call leaves every childViews list as it was.
C13_NoValidRoot ==
    [][(ret' # ret /\ ret'.op \in {"newTrieView", "NewView"}) =>
        LET rootErr == trieGetEditableNode(views, ret'.parent, emptyKey, FALSE).err
        IN  /\ ret'.err = ErrNoValidRoot <=> rootErr = ErrNotFound
            /\ rootErr \notin {NoErr, ErrNotFound} => ret'.err = rootErr
            /\ rootErr # NoErr =>
                /\ ret'.view = NoView
                /\ db'.childViews = db.childViews
                /\ \A v \in ViewIds :
                    /\ views'[v].exists = views[v].exists
                    /\ views'[v].childViews = views[v].childViews]_vars

\* the database held no root when a view was asked of it
C13_Witness ==
    /\ db = NoRootDB
    /\ ret.op = "NewView"
    /\ ret.parent = DB
    /\ ret.err = ErrNoValidRoot
    /\ Existing = {}

C15_KeyValuesOfRange ==
    (ret.op = "GetRangeProof" /\ ret.err = NoErr /\ ret.maxLength >= 1) =>
        LET kvs == ret.proof.KeyValues
            held == FinalMap(views[1])
            emitted == {kvs[i].Key : i \in DOMAIN kvs}
            inRange(k) ==
                /\ ret.start.has => Compare(k, ret.start.value) >= 0
                /\ ret.end.has => Compare(k, ret.end.value) <= 0
        IN  /\ Len(kvs) <= ret.maxLength
            /\ \A i \in 1..(Len(kvs) - 1) : Compare(kvs[i].Key, kvs[i + 1].Key) = -1
            /\ \A i \in DOMAIN kvs :
                /\ inRange(kvs[i].Key)
                /\ kvs[i].Key \in DOMAIN held
                /\ kvs[i].Value = held[kvs[i].Key]
            /\ \A k \in DOMAIN held :
                (/\ ret.start.has => Compare(k, ret.start.value) >= 0
                 /\ Len(kvs) > 0
                 /\ Compare(k, kvs[Len(kvs)].Key) <= 0) => k \in emitted

\* a range that was cut at maxLength pairs: a key of the view past the last
\* pair and not past end was left for a later call, and the batch of the view
\* wrote one of the pairs
C15_Witness ==
    /\ ret.op = "GetRangeProof"
    /\ ret.err = NoErr
    /\ ret.start.has
    /\ ret.end.has
    /\ ret.maxLength = MaxRangeLength
    /\ Len(ret.proof.KeyValues) = MaxRangeLength
    /\ \E k \in DOMAIN FinalMap(views[1]) :
        /\ Compare(k, ret.proof.KeyValues[MaxRangeLength].Key) = 1
        /\ Compare(k, ret.end.value) <= 0
    /\ \E i \in DOMAIN ret.proof.KeyValues : ret.proof.KeyValues[i].Value = "v2"

\* C16: the EndProof of a GetRangeProof that succeeds is the path of the
\* proof of the greatest key among its pairs when it has a pair, whatever
\* the end asked for, and the path of the proof of end when it has no pair
\* and an end was given.
C16_EndProofOfGreatestKey ==
    (ret.op = "GetRangeProof" /\ ret.err = NoErr) =>
        LET kvs == ret.proof.KeyValues
            pathOf(key) == getProof(views, views[1], key).proof.path
        IN  /\ Len(kvs) > 0 => ret.proof.EndProof = pathOf(kvs[Len(kvs)].Key)
            /\ (Len(kvs) = 0 /\ ret.end.has) =>
                    ret.proof.EndProof = pathOf(ret.end.value)

\* the range stopped before the end asked for, and the proof of that end is
\* another path than the EndProof returned
C16_Witness ==
    /\ ret.op = "GetRangeProof"
    /\ ret.err = NoErr
    /\ ret.end.has
    /\ Len(ret.proof.KeyValues) > 0
    /\ ret.proof.KeyValues[Len(ret.proof.KeyValues)].Key # ret.end.value
    /\ getProof(views, views[1], ret.end.value).err = NoErr
    /\ getProof(views, views[1], ret.end.value).proof.path # ret.proof.EndProof

\* C17: when a start is given, no key of a node is both in the StartProof and
\* in the EndProof of the result: the StartProof is the path of the proof of
\* start without the nodes that are in the EndProof too, and the nodes
\* removed, followed by the nodes kept, are the whole path of the proof of
\* start.
C17_StartProofStripped ==
    (ret.op = "GetRangeProof" /\ ret.err = NoErr /\ ret.start.has) =>
        LET startPath == getProof(views, views[1], ret.start.value).proof.path
            kept == ret.proof.StartProof
            endKeys == {ret.proof.EndProof[i].key : i \in DOMAIN ret.proof.EndProof}
            removed == SubSeq(startPath, 1, Len(startPath) - Len(kept))
        IN  /\ \A i \in DOMAIN kept : kept[i].key \notin endKeys
            /\ kept = SelectSeq(startPath, LAMBDA n : n.key \notin endKeys)
            /\ Len(kept) <= Len(startPath)
            /\ \A i \in DOMAIN removed : removed[i].key \in endKeys
            /\ removed \o kept = startPath

\* the proof of start and the EndProof part below the root: two nodes were
\* removed from the proof of start, and a node was kept
C17_Witness ==
    /\ ret.op = "GetRangeProof"
    /\ ret.err = NoErr
    /\ ret.start.has
    /\ Len(ret.proof.StartProof) >= 1
    /\ Len(getProof(views, views[1], ret.start.value).proof.path)
            >= Len(ret.proof.StartProof) + 2

\* C18: a GetRangeProof that succeeds never returns KeyValues, StartProof and
\* EndProof all three empty: when the range has no pair and neither a start
\* nor an end gave a proof, the EndProof is the path of the proof of the
\* root key.
C18_RootProofOfEmptyRange ==
    (ret.op = "GetRangeProof" /\ ret.err = NoErr) =>
        /\ \/ Len(ret.proof.KeyValues) > 0
           \/ Len(ret.proof.StartProof) > 0
           \/ Len(ret.proof.EndProof) > 0
        /\ (/\ Len(ret.proof.KeyValues) = 0
            /\ ~ret.start.has
            /\ ~ret.end.has) =>
                /\ ret.proof.StartProof = <<>>
                /\ ret.proof.EndProof = getProof(views, views[1], emptyKey).proof.path
                /\ Len(ret.proof.EndProof) = 1
                /\ ret.proof.EndProof[1].key = emptyKey

\* the whole range of a view that holds no key was asked for
C18_Witness ==
    /\ ret.op = "GetRangeProof"
    /\ ret.err = NoErr
    /\ ~ret.start.has
    /\ ~ret.end.has
    /\ Len(ret.proof.KeyValues) = 0
    /\ DOMAIN FinalMap(views[1]) = {}
    /\ DOMAIN views[1].values # {}
    /\ Len(ret.proof.EndProof) = 1

\* C19: the Path of GetProof of a key K starts with the root; each node after
\* it has a key that strictly extends the key before it; its Value is the
\* value of K in the view.  The nodes whose keys are prefixes of K come
\* first; when the last of them has the key K the path ends there; when it
\* has not, one more node follows exactly when that last node has a child at
\* the next token of K, and it is that child.
C19_ProofPathOfKey ==
    (ret.op = "GetProof" /\ ret.err = NoErr) =>
        LET K == ret.key
            path == ret.proof.path
            held == FinalMap(views[1])
            isPrefix(a, b) == Len(a) <= Len(b) /\ SubSeq(b, 1, Len(a)) = a
            onWalk == {i \in DOMAIN path : isPrefix(path[i].key, K)}
            n == Cardinality(onWalk)
        IN  /\ ret.proof.key = K
            /\ ret.proof.value = (IF K \in DOMAIN held THEN held[K] ELSE Nothing)
            /\ Len(path) >= 1
            /\ path[1].key = emptyKey
            /\ \A i \in 1..(Len(path) - 1) :
                /\ isPrefix(path[i].key, path[i + 1].key)
                /\ path[i].key # path[i + 1].key
            /\ onWalk = 1..n
            /\ K \in DOMAIN held => path[n].key = K
            /\ path[n].key = K => Len(path) = n
            /\ path[n].key # K =>
                LET nextToken == K[Len(path[n].key) + 1]
                IN  IF nextToken \in DOMAIN path[n].children
                    THEN /\ Len(path) = n + 1
                         /\ isPrefix(path[n].key \o <<nextToken>>, path[n + 1].key)
                         /\ path[n].children[nextToken].key = path[n + 1].key
                    ELSE Len(path) = n

\* the walk to a key that is not in the view went two nodes deep, and the
\* child that stands where the key would be was added to the path
C19_Witness ==
    /\ ret.op = "GetProof"
    /\ ret.err = NoErr
    /\ ret.proof.value = Nothing
    /\ Len(ret.proof.path) = 3
    /\ LET last == ret.proof.path[3].key
       IN  ~(Len(last) <= Len(ret.key) /\ SubSeq(ret.key, 1, Len(last)) = last)
    /\ DOMAIN views[1].values # {}

\* C20: a view whose batch writes a value the parent holds already for the
\* key, or deletes a key the parent does not hold, has the Merkle root of the
\* parent; a view whose batch writes the same value twice for a key has the
\* Merkle root of the view whose batch writes it once.
C20_IdempotentRoot ==
    (mat.phase = "idem" /\ ret.op = "GetMerkleRoot") =>
        LET batch == mat.batch
            K == batch[1].key
            V == batch[1].value
            parentRoot == RefRootID(db.values)
            once == newTrieView([w \in ViewIds |-> NoView], DB, <<batch[1]>>).t
            rootOnce == GetMerkleRoot([views EXCEPT ![1] = once], once, <<K>>,
                                      SemaCapacity)
        IN  /\ ret.err = NoErr
            /\ (Len(batch) = 1 /\ HasValue(V) /\ K \in DOMAIN db.values /\ db.values[K] = V)
                    => ret.id = parentRoot
            /\ (Len(batch) = 1 /\ V = Nothing /\ K \notin DOMAIN db.values)
                    => ret.id = parentRoot
            /\ (Len(batch) = 2 /\ HasValue(V) /\ batch[2] = batch[1])
                    => rootOnce.err = NoErr /\ ret.id = rootOnce.id

\* a key that the database does not hold was deleted below a node that holds
\* a value, and the root of the view was asked for
C20_Witness ==
    /\ mat.phase = "idem"
    /\ ret.op = "GetMerkleRoot"
    /\ ret.err = NoErr
    /\ Len(mat.batch) = 1
    /\ mat.batch[1].value = Nothing
    /\ mat.batch[1].key = <<0, 0>>
    /\ mat.batch[1].key \notin DOMAIN db.values
    /\ <<0>> \in DOMAIN db.values
    /\ ret.id = RefRootID(db.values)

\* C21: the commits to one database go one at a time: at most one thread,
\* and so at most one view, is between taking the database's commitLock and
\* the end of its commit, the thread that is there owns the lock, and a
\* thread that has returned, with or without an error, owns no lock.
C21_CommitsSerialised ==
    mat.phase = "commit" =>
        LET inside == {i \in Threads : thr[i].pc \in CommitPcs}
        IN  /\ Cardinality(inside) <= 1
            /\ Cardinality({thr[i].view : i \in inside}) <= 1
            /\ \A i \in inside : mat.dbCommitLock = i
            /\ \A i \in Threads \ inside :
                /\ mat.dbCommitLock # i
                /\ \A v \in ViewIds : mat.commitLock[v] # i
            /\ inside = {} => mat.dbCommitLock = NoOwner

\* a commit went well, the commit of the view it invalidated failed after
\* it, and both locks are free again
C21_Witness ==
    /\ mat.phase = "commit"
    /\ thr[1].pc = "returned" /\ thr[1].err = NoErr /\ thr[1].view = 1
    /\ thr[2].pc = "returned" /\ thr[2].err = ErrInvalid /\ thr[2].view = 2
    /\ views[1].committed
    /\ ~views[2].committed
    /\ mat.dbCommitLock = NoOwner

\* C30: calculateNodeIDs gives back every permit of calculateNodeIDsSema that
\* it took, however it returns: whenever no thread is in the body of a
\* materialisation, the semaphore holds as many permits as its capacity.
C30_PermitsReleased ==
    (mat.phase = "once" /\ \A i \in Threads : thr[i].pc # "body")
        => db.sema = SemaCapacity

\* C22: a materialisation that was started runs to its end: every call of
\* calculateNodeIDs returns in the end, whatever became of the
\* materialisations of the other views that share the semaphore.
C22_EveryCallReturns ==
    \A i \in Threads : (thr[i].pc = "calc") ~> (thr[i].pc = "returned")

\* C24: AddPermanentState merges what it is given into the permanent maps,
\* the entry given last for a key standing and the keys not given kept, and
\* leaves the temporary maps as they are; SetTemporaryState puts what it is
\* given in the place of the temporary maps and leaves the permanent maps as
\* they are; SetBase clears parentTrie and changes none of the maps.
C24_StatelessStateFrame ==
    [][(mat.phase = "stateless" /\ mat'.calls # mat.calls) =>
        LET old == mat.sv
            new == mat'.sv
            merged(before, after, given) ==
                /\ DOMAIN after = (DOMAIN before) \cup (DOMAIN given)
                /\ \A k \in DOMAIN given : after[k] = given[k]
                /\ \A k \in (DOMAIN before) \ (DOMAIN given) : after[k] = before[k]
            sameTemp == new.tempValues = old.tempValues /\ new.tempNodes = old.tempNodes
            samePerm == new.permValues = old.permValues /\ new.permNodes = old.permNodes
        IN  CASE ret'.op = "AddPermanentState" ->
                    /\ merged(old.permValues, new.permValues, ret'.values)
                    /\ merged(old.permNodes, new.permNodes, ret'.nodes)
                    /\ sameTemp
                    /\ new.parentTrie = old.parentTrie
              [] ret'.op = "SetTemporaryState" ->
                    /\ new.tempValues = ret'.values
                    /\ new.tempNodes = ret'.nodes
                    /\ samePerm
                    /\ new.parentTrie = old.parentTrie
              [] ret'.op = "SetBase" ->
                    /\ new.parentTrie = NilTrie
                    /\ sameTemp
                    /\ samePerm
              [] OTHER -> FALSE]_vars

\* permanent state was added twice: the second call gave another entry for a
\* key of the first and did not mention the other key, which was kept, while
\* the temporary maps set in between stayed
C24_Witness ==
    /\ mat.phase = "stateless"
    /\ ret.op = "AddPermanentState"
    /\ DOMAIN ret.values = {<<0>>}
    /\ ret.values[<<0>>] = Nothing
    /\ DOMAIN mat.sv.permValues = StateKeys
    /\ mat.sv.permValues[<<0>>] = Nothing
    /\ mat.sv.permValues[<<1>>] = "v1"
    /\ DOMAIN mat.sv.tempValues = {<<1>>}
    /\ DOMAIN mat.sv.permNodes = {<<0>>}
    /\ ret.nodes = EmptyMap


\* the key at which visitPathToKey ends its walk towards [key]
walkEnd(vs, t, key) ==
    LET walked(p) == p.path[Len(p.path)].key
    IN  walked(visitPathToKey(vs, t, key))

\* the value of the node of the trie of [t] at [key], Nothing when there is none
trieValueAt(vs, t, key) ==
    LET at == {e \in Trie(vs, t) : e.key = key /\ e.node # NilNode}
    IN  IF at = {} THEN Nothing ELSE (CHOOSE e \in at : TRUE).node.value

\* C25: a step of the materialisation that applies remove(K) changes the value
\* of no node other than the node at K, and when the walk towards K does not
\* end on K, or the node at K holds no value, the trie of the view is left as
\* it was: no value cleared, no node deleted, no child entry rewritten.
C25_RemoveFrame ==
    [][\A key \in Keys :
            (/\ mat.phase = "applying"
             /\ key \in mat.pending
             /\ mat'.phase = "applying"
             /\ mat'.pending = mat.pending \ {key}
             /\ views[1].values[key].after = Nothing)
            => /\ \A e \in Trie(views, views[1]) :
                    (e.key # key /\ e.node # NilNode)
                    => \/ \A f \in Trie(views, views'[1]) : f.key # e.key
                       \/ trieValueAt(views, views'[1], e.key) = e.node.value
               /\ (\/ walkEnd(views, views[1], key) # key
                   \/ trieValueAt(views, views[1], key) = Nothing)
                  => Trie(views, views'[1]) = Trie(views, views[1])]_vars


\* the node of the trie of [t] at [key], NilNode when there is none
trieNodeAt(vs, t, key) ==
    LET at == {e \in Trie(vs, t) : e.key = key}
    IN  IF at = {} THEN NilNode ELSE (CHOOSE e \in at : TRUE).node

\* the key of the child of the node [n] at [key] under the token [index]
childKeyOf(key, n, index) == Extend(key, index, n.children[index].compressedKey)

\* insert(key, value) on the trie of [t] takes the branch case: the walk ends
\* above [key] on a node with a child under the next token of [key]
insertBranches(vs, t, key) ==
    /\ walkEnd(vs, t, key) # key
    /\ trieNodeAt(vs, t, walkEnd(vs, t, key)) # NilNode
    /\ Token(key, Len(walkEnd(vs, t, key)))
            \in DOMAIN trieNodeAt(vs, t, walkEnd(vs, t, key)).children

\* what the branch case of insert(key, value) leaves, from the trie before
branchInserted(vs, before, after, key, value) ==
    LET closestKey == walkEnd(vs, before, key)
        closestNode == trieNodeAt(vs, before, closestKey)
        index == Token(key, Len(closestKey))
        existing == closestNode.children[index]
        oldKey == childKeyOf(closestKey, closestNode, index)
        branchKey == LCP(key, oldKey)
        closestAfter == trieNodeAt(vs, after, closestKey)
        branch == trieNodeAt(vs, after, branchKey)
    IN  /\ closestAfter # NilNode
        /\ closestAfter.value = closestNode.value
        /\ DOMAIN closestAfter.children = DOMAIN closestNode.children
        /\ \A i \in DOMAIN closestNode.children :
                i # index => closestAfter.children[i] = closestNode.children[i]
        /\ childKeyOf(closestKey, closestAfter, index) = branchKey
        /\ branch # NilNode
        /\ IF branchKey = key
           THEN /\ branch.value = value
                /\ DOMAIN branch.children = {Token(oldKey, Len(branchKey))}
           ELSE /\ branch.value = Nothing
                /\ DOMAIN branch.children
                        = {Token(oldKey, Len(branchKey)), Token(key, Len(branchKey))}
                /\ childKeyOf(branchKey, branch, Token(key, Len(branchKey))) = key
                /\ trieNodeAt(vs, after, key) = setValue(newNode, value)
        /\ LET kept == branch.children[Token(oldKey, Len(branchKey))]
           IN  /\ childKeyOf(branchKey, branch, Token(oldKey, Len(branchKey))) = oldKey
               /\ kept.id = existing.id
               /\ kept.hasValue = existing.hasValue
        /\ {e.key : e \in Trie(vs, after)}
                = {e.key : e \in Trie(vs, before)} \cup {branchKey, key}
        /\ \A e \in Trie(vs, before) : e.key # closestKey => e \in Trie(vs, after)

\* C26: a step of the materialisation that applies insert(K, V) where the
\* closest node has a child under the next token of K whose key diverges from
\* K leaves the closest node's entry pointing at a new branch node at the
\* longest common prefix; the branch holds V when its key is K and otherwise
\* has a new leaf child at K holding V; the old child hangs under the branch
\* with its ID, its hasValue and its full key; no other node changes.
C26_InsertBranch ==
    [][\A key \in Keys :
            (/\ mat.phase = "applying"
             /\ key \in mat.pending
             /\ mat'.phase = "applying"
             /\ mat'.pending = mat.pending \ {key}
             /\ views[1].values[key].after # Nothing
             /\ insertBranches(views, views[1], key))
            => branchInserted(views, views[1], views'[1], key,
                              views[1].values[key].after)]_vars

C26_Witness ==
    /\ mat.phase = "applying"
    /\ \E key \in DOMAIN views[1].values \ mat.pending :
            /\ views[1].values[key].after # Nothing
            /\ \E e \in Trie(views, views[1]) :
                    /\ e.node # NilNode
                    /\ e.node.value = Nothing
                    /\ e.key # emptyKey
                    /\ e.key # key
                    /\ e.key \notin DOMAIN db.nodes
                    /\ key \in {x.key : x \in Trie(views, views[1])}
                    /\ Cardinality(DOMAIN e.node.children) = 2


\* a node other than the root without a value and with exactly one child
compressible(e) ==
    /\ e.key # emptyKey
    /\ e.node # NilNode
    /\ e.node.value = Nothing
    /\ Cardinality(DOMAIN e.node.children) = 1

\* the node [e] of the trie of [before] was merged into its only child: it is
\* recorded as deleted, and a node of [after] above it references that child
\* under the child's full key with the ID and hasValue of the old entry
compressedAway(vs, before, after, e) ==
    /\ e.key \in DOMAIN after.nodes
    /\ after.nodes[e.key].after = NilNode
    /\ \E p \in Trie(vs, after), i \in Tokens :
            /\ p.node # NilNode
            /\ i \in DOMAIN p.node.children
            /\ Len(p.key) < Len(e.key)
            /\ \E j \in DOMAIN e.node.children :
                    /\ childKeyOf(p.key, p.node, i) = childKeyOf(e.key, e.node, j)
                    /\ p.node.children[i].id = e.node.children[j].id
                    /\ p.node.children[i].hasValue = e.node.children[j].hasValue

\* C27: a step of the materialisation that applies remove(K) leaves no node
\* other than the root without a value and with exactly one child: such a
\* node is recorded as deleted and its parent's entry references the
\* grandchild with the grandchild's ID, hasValue and full key.  A node whose
\* key the batch is still to give a value is not counted.
C27_CompressedOnDelete ==
    [][\A key \in Keys :
            (/\ mat.phase = "applying"
             /\ key \in mat.pending
             /\ mat'.phase = "applying"
             /\ mat'.pending = mat.pending \ {key}
             /\ views[1].values[key].after = Nothing)
            => /\ \A e \in Trie(views, views'[1]) :
                    (/\ compressible(e)
                     /\ ~(/\ e.key \in DOMAIN views[1].values
                          /\ views[1].values[e.key].after # Nothing))
                    => e \in Trie(views, views[1])
               /\ \A e \in Trie(views, views[1]) :
                    (/\ e.node # NilNode
                     /\ e.key # walkEnd(views, views[1], key)
                     /\ e.key \notin {f.key : f \in Trie(views, views'[1])})
                    => compressedAway(views, views[1], views'[1], e)]_vars


\* the child entry of [n] at [key] under [index] agrees with the node of the
\* trie of [t] it leads to: that node exists, the entry's hasValue says
\* whether it holds a value and the entry's id is its ID
entryAgrees(vs, t, key, n, index) ==
    LET child == trieNodeAt(vs, t, childKeyOf(key, n, index))
    IN  /\ child # NilNode
        /\ n.children[index].hasValue = hasValue(child)
        /\ n.children[index].id = calculateID(childKeyOf(key, n, index), child)

\* C28: after a successful recomputation every child entry of every node
\* reachable from the view's root carries the hasValue and the Merkle ID of
\* the child node it leads to, for changed and unchanged children alike.
C28_EntriesAgree ==
    (Done /\ mat.err = NoErr) =>
        \A e \in Trie(views, views[1]) :
            /\ e.node # NilNode
            /\ \A i \in DOMAIN e.node.children :
                    entryAgrees(views, views[1], e.key, e.node, i)

C28_Witness ==
    /\ Done
    /\ mat.err = NoErr
    /\ \E e \in Trie(views, views[1]) :
            \E i, j \in DOMAIN e.node.children :
                /\ childKeyOf(e.key, e.node, i) \in DOMAIN views[1].nodes
                /\ childKeyOf(e.key, e.node, j) \notin DOMAIN views[1].nodes
                /\ e.node.children[i].hasValue
                /\ e.node.children[j].hasValue


\* the ID of the node [n] at [key] with every node below it recomputed
RECURSIVE recomputeID(_, _, _, _)
recomputeID(vs, t, key, n) ==
    calculateID(key,
        [n EXCEPT !.children =
            [i \in DOMAIN n.children |->
                LET child == getNode(vs, t, childKeyOf(key, n, i), n.children[i].hasValue)
                IN  IF child.err # NoErr
                    THEN newChild(n.children[i].compressedKey, EmptyID, FALSE)
                    ELSE newChild(n.children[i].compressedKey,
                                  recomputeID(vs, t, childKeyOf(key, n, i), child.node),
                                  hasValue(child.node))]])

\* the child entries the helper follows from the nodes of the trie of [t]
followedEntries(vs, t) ==
    (UNION {{childKeyOf(e.key, e.node, i) : i \in DOMAIN e.node.children} :
                e \in {f \in Trie(vs, t) : f.node # NilNode}}) \cap DOMAIN t.nodes

\* C29: recomputing only the children whose keys are in changes.nodes loses
\* nothing: the root ID of a successful recomputation is the ID obtained by
\* recomputing every node bottom-up, and no child entry the helper follows
\* refers to a key whose recorded node is deleted.
C29_ChangedNodesSuffice ==
    /\ (Done /\ mat.err = NoErr)
            => views[1].rootID = recomputeID(views, views[1], emptyKey, views[1].root)
    /\ (mat.phase = "applying" /\ mat.pending = {})
            => \A k \in followedEntries(views, views[1]) :
                    views[1].nodes[k].after # NilNode
    /\ mat.err # Panic

C29_Witness ==
    /\ Done
    /\ mat.err = NoErr
    /\ views[1].rootID # calculateID(emptyKey, db.nodes[emptyKey])
    /\ \E e \in Trie(views, views[1]) :
            /\ e.key # emptyKey
            /\ e.key \notin DOMAIN views[1].nodes
    /\ \E k \in DOMAIN views[1].nodes : views[1].nodes[k].after = NilNode


\* C23: for the same starting trie and the same value changes the structural
\* algorithms of statelessView and of trieView end without error with the
\* same node keys, node values and child entries, and the two views compute
\* the same root ID.
C23_SameTrie ==
    mat.phase = "refined" =>
        /\ mat.err = NoErr
        /\ statelessTrie(mat.sn, emptyKey) = trieStructure(views, views[1])
        /\ mat.statelessRootID = views[1].rootID


C32_LazyConstruction ==
    mat.phase = "fresh" =>
        /\ views[1].nodes = EmptyMap
        /\ views[1].root = db.nodes[emptyKey]
        /\ views[1].rootID = EmptyID
        /\ ~views[1].nodesAlreadyCalculated
        /\ views[1].calculateNodesOnce = "new"
        /\ DOMAIN views[1].values = DOMAIN mat.last
        /\ \A k \in DOMAIN mat.last : views[1].values[k].after = mat.last[k]

C32_Witness ==
    /\ mat.phase = "fresh"
    /\ mat.nops = 2
    /\ Cardinality(DOMAIN views[1].values) = 1
    /\ DOMAIN db.nodes[emptyKey].children # {}


\* the node the database holds at [key], nil when it holds none
parentNode(key) == IF key \in DOMAIN db.nodes THEN db.nodes[key] ELSE NilNode

\* C34: for every key of changes.values and changes.nodes, before is what
\* the parent trie held when the key was first recorded and no later
\* recording changes it; after of a value is the value recorded last; a
\* node the view created is recorded with before = nil.
C34_BeforeCapturedOnce ==
    [][/\ \A k \in DOMAIN views[1].values :
            /\ k \in DOMAIN views'[1].values
            /\ views'[1].values[k].before = views[1].values[k].before
       /\ \A k \in DOMAIN views'[1].values :
            /\ k \notin DOMAIN views[1].values
                    => views'[1].values[k].before = dbGetValue(k).val
            /\ k \in DOMAIN mat'.last => views'[1].values[k].after = mat'.last[k]
       /\ \A k \in DOMAIN views[1].nodes :
            /\ k \in DOMAIN views'[1].nodes
            /\ views'[1].nodes[k].before = views[1].nodes[k].before
       /\ \A k \in DOMAIN views'[1].nodes :
            k \notin DOMAIN views[1].nodes
                => views'[1].nodes[k].before = parentNode(k)]_vars

C34_Witness ==
    /\ mat.phase = "applying"
    /\ \E k \in DOMAIN views[1].nodes :
            /\ views[1].nodes[k].before # NilNode
            /\ views[1].nodes[k].after # views[1].nodes[k].before
            /\ k # emptyKey
    /\ \E k \in DOMAIN views[1].nodes : views[1].nodes[k].before = NilNode
    /\ \E k \in DOMAIN views[1].values :
            /\ views[1].values[k].before # Nothing
            /\ views[1].values[k].after # views[1].values[k].before


\* C36: the root is never deleted nor compressed away: whenever the empty key
\* is in changes.nodes its after node is not nil, and a materialised view
\* whose final map is empty has a root without value and without children
\* whose ID is the root ID of the empty trie.
C36_RootKept ==
    /\ emptyKey \in DOMAIN views[1].nodes
            => views[1].nodes[emptyKey].after # NilNode
    /\ (Done /\ mat.err = NoErr /\ FinalMap(views[1]) = EmptyMap)
            => /\ views[1].root.value = Nothing
               /\ DOMAIN views[1].root.children = {}
               /\ views[1].rootID = RefRootID(EmptyMap)

C36_Witness ==
    /\ Done
    /\ mat.err = NoErr
    /\ FinalMap(views[1]) = EmptyMap
    /\ Cardinality(DOMAIN db.values) = 2
    /\ emptyKey \in DOMAIN db.values
    /\ emptyKey \in DOMAIN views[1].nodes
    /\ views[1].nodes[emptyKey].before # views[1].nodes[emptyKey].after


\* the walk of insert towards [key] ends on a node with a child at the next
\* token of [key]
closestHasChild(p, key) ==
    /\ p.err = NoErr
    /\ p.path[Len(p.path)].key # key
    /\ Token(key, Len(p.path[Len(p.path)].key))
            \in DOMAIN p.path[Len(p.path)].node.children

\* the check of insert that returns ErrGetPathToFailure passes
childKeyGoesOn(p, key) ==
    LET closestKey == p.path[Len(p.path)].key
        existingChildEntry ==
            p.path[Len(p.path)].node.children[Token(key, Len(closestKey))]
    IN  Len(existingChildEntry.compressedKey)
            > getLengthOfCommonPrefix(existingChildEntry.compressedKey, key,
                                      Len(closestKey) + tokenSize)

\* C39: insert never returns ErrGetPathToFailure: in every trie the view
\* goes through, for every key, when the closest node has a child at the
\* key's next token, the child's compressed key is strictly longer than
\* its common prefix with the rest of the key.
C39_NoGetPathToFailure ==
    /\ mat.err # ErrGetPathToFailure
    /\ \A key \in Keys :
            closestHasChild(visitPathToKey(views, views[1], key), key)
                => childKeyGoesOn(visitPathToKey(views, views[1], key), key)

C39_Witness ==
    /\ mat.phase = "applying"
    /\ views[1].nodes # EmptyMap
    /\ \E key \in Keys :
            /\ closestHasChild(visitPathToKey(views, views[1], key), key)
            /\ Len(walkEnd(views, views[1], key)) > 0
            /\ childKeyGoesOn(visitPathToKey(views, views[1], key), key)


\* the two maps of the codec are inverse to each other
inverseMaps(c) ==
    /\ \A valType \in DOMAIN c.typeToTypeID :
            /\ c.typeToTypeID[valType] \in DOMAIN c.typeIDToType
            /\ c.typeIDToType[c.typeToTypeID[valType]] = valType
    /\ \A typeID \in DOMAIN c.typeIDToType :
            /\ c.typeIDToType[typeID] \in DOMAIN c.typeToTypeID
            /\ c.typeToTypeID[c.typeIDToType[typeID]] = typeID

\* a call of RegisterType returns ErrDuplicateType in this step
duplicateReturned ==
    \E i \in Threads : thr[i].pc = "check" /\ thr'[i].err = ErrDuplicateType

\* a call that returns ErrDuplicateType was made for a registered type and
\* changes neither map nor nextTypeID
duplicateChangesNothing ==
    duplicateReturned
        => /\ db'.typeIDToType = db.typeIDToType
           /\ db'.typeToTypeID = db.typeToTypeID
           /\ db'.nextTypeID = db.nextTypeID
           /\ \E i \in Threads :
                /\ thr'[i].err = ErrDuplicateType
                /\ \E k \in DOMAIN mat.registered :
                        mat.registered[k] = thr[i].valType

\* the registered types are the keys of typeToTypeID
registeredAreMapped(c, registered) ==
    DOMAIN c.typeToTypeID = {registered[k] : k \in DOMAIN registered}

\* C40: whenever no RegisterType is inside the lock, typeToTypeID and
\* typeIDToType are inverse maps and the k-th successfully registered type
\* has the ID initial nextTypeID + k - 1 in uint32 arithmetic, that is
\* modulo 2^32; a call that returns ErrDuplicateType changes neither map
\* nor nextTypeID.
C40_RegisterType ==
    [][/\ duplicateChangesNothing
       /\ db'.lock = NoOwner
            => /\ inverseMaps(db')
               /\ registeredAreMapped(db', mat'.registered)
               /\ \A k \in DOMAIN mat'.registered :
                    db'.typeToTypeID[mat'.registered[k]]
                        = uint32Plus(mat'.initial, k - 1)]_vars

\* C40 as stated: the same, with the ID initial nextTypeID + k - 1 as a
\* number
C40_IDsWithoutWrap ==
    [][/\ duplicateChangesNothing
       /\ db'.lock = NoOwner
            => /\ inverseMaps(db')
               /\ registeredAreMapped(db', mat'.registered)
               /\ \A k \in DOMAIN mat'.registered :
                    db'.typeToTypeID[mat'.registered[k]]
                        = plus(mat'.initial, k - 1)]_vars

C40_Witness ==
    /\ db.lock = NoOwner
    /\ Len(mat.registered) = 3
    /\ mat.initial = <<limbSize - 1, limbSize - 2>>
    /\ \E i \in Threads : thr[i].err = ErrDuplicateType
    /\ db.typeToTypeID[mat.registered[3]] = <<0, 0>>


\* C38: a step of materialisation (the entry into calculateNodeIDs, each
\* insert or remove of its loop, the computation of the IDs) changes the
\* result of GetValue for no key: a reader gets the same before, between
\* any two steps of, and after calculateNodeIDs.
C38_MaterialisationKeepsValues ==
    [][(mat.phase \in {"fresh", "applying"} /\ ~views[1].invalidated)
        => \A key \in Keys :
                GetValue(views', views'[1], key) = GetValue(views, views[1], key)]_vars

C38_Witness ==
    /\ mat.phase = "applying"
    /\ Cardinality(mat.pending) = 1
    /\ Cardinality(DOMAIN views[1].values) = 2
    /\ views[1].nodes # EmptyMap
    /\ \E key \in DOMAIN views[1].values :
            /\ key \notin mat.pending
            /\ GetValue(views, views[1], key).err = ErrNotFound
            /\ key \in DOMAIN db.values
    /\ \E key \in mat.pending : GetValue(views, views[1], key).err = NoErr


\* a thread edits the node it holds in this step
nodeEdited == \E i \in Threads : thr[i].pc = "held" /\ thr'[i].node # thr[i].node

C37_GetValuesReturns ==
    \A i \in Threads :
        (thr[i].op = "GetValues" /\ thr[i].pc = "GetValues")
            ~> (thr[i].op = "GetValues" /\ thr[i].pc = "returned")


\* the ancestors of view [v]
RECURSIVE ancestors(_, _)
ancestors(vs, v) ==
    IF getParentTrie(vs[v]) = DB
    THEN {}
    ELSE {getParentTrie(vs[v])} \cup ancestors(vs, getParentTrie(vs[v]))

\* no thread has asked for the lock of a view while holding the lock of that
\* view or of one of its descendants
parentBeforeChild ==
    \A i \in Threads : \A a, b \in DOMAIN thr[i].held :
        a < b => /\ thr[i].held[b] # thr[i].held[a]
                 /\ thr[i].held[b] \notin ancestors(views, thr[i].held[a])

\* C33: in getValue, getEditableNode, getParentTrie, isInvalid, NewView,
\* updateParent and invalidate no thread takes the validityTrackingLock of
\* an ancestor, or of the same view again, while it holds that of a view
\* (the locks nest from parent to child only, in invalidate), and every
\* call on the chain of views returns.
C33_LockOrder ==
    /\ []parentBeforeChild
    /\ \A i \in Threads : (thr[i].pc = "run") ~> (thr[i].pc = "returned")

C33_Witness ==
    \E i, j \in Threads :
        /\ thr[i].op = "invalidate"
        /\ Len(thr[i].held) = 3
        /\ thr[j].op \in ChainGets
        /\ thr[j].pc = "run"
        /\ Len(thr[j].stack) >= 2
        /\ running(j).stage \in {"isInvalid", "getParentTrie", "recheck"}
        /\ ~canRLock(mat.locks[running(j).view])

====
